---- MODULE Spec2Model ----
(***************************************************************************)
(* Model of binance_trade_bot.AutoTrader (src/binance_trade_bot/           *)
(* auto_trader.py): the ratio-scouting jump decision, the path ledger      *)
(* (CoinPnl / UsdPnl rows per path), the merge of two paths and the        *)
(* reconciliation of manual deposits and withdrawals.                      *)
(*                                                                         *)
(* Numbers.  Python floats are modelled by exact rationals [n, d]; a       *)
(* persisted field is the integer round(x * 10^digits) (round half to      *)
(* even, as Python's round), so rounding is an operation of the model.     *)
(* Exceptions (ZeroDivisionError, AttributeError on None, TypeError on a   *)
(* null ratio) end a handler where they are raised; what was written       *)
(* before stays written, every db call being its own commit.               *)
(***************************************************************************)
EXTENDS Integers, Sequences, FiniteSets, TLC

VARIABLES
    paths,              \* Path table: paths[id] = the path's active flag
    current,            \* latest CurrentCoin row per path id (0 = null path)
    coin_pnl,           \* CoinPnl table, in insertion order
    usd_pnl,            \* UsdPnl table, in insertion order
    ratio,              \* Pair.ratio for every ordered pair of coins
    failed_buy_order,   \* AutoTrader.failed_buy_order
    failed_buy_path,    \* AutoTrader.failed_buy_path (0 = None)
    config,             \* Config: RATIO_CALC and SCOUT_MULTIPLIER
    price,              \* exchange: the market price of every coin (0 = none)
    lastOp,             \* the last handler call and what it returned
    calls               \* the number of handler calls that wrote something

vars == <<paths, current, coin_pnl, usd_pnl, ratio, failed_buy_order,
          failed_buy_path, config, price, lastOp, calls>>

----------------------------------------------------------------------------
(* Bounds of the model *)

MaxCalls == 3
MaxPaths == 4
MaxCoinRows == 6
MaxPositions == 4
MaxUsdRows == 6
MaxBatch == 2
MaxQty == 2
MaxPrice == 1
MaxTick == 3
MaxLedgerCoins == 2
MaxHeldPrice == 2
MaxBridge == 4
MaxWeight == 2

(* Enabled coins, in the order db.get_coins() returns them *)
CoinList == <<"A", "B", "C">>
Coins == {CoinList[i] : i \in 1..Len(CoinList)}
(* the coins the ledger specification trades, deposits and withdraws *)
LedgerCoins == {CoinList[i] : i \in 1..MaxLedgerCoins}
NoCoin == "none"
None == [none |-> TRUE]
NoPath == 0

Qty == 1..MaxQty
Prices == 1..MaxPrice

----------------------------------------------------------------------------
(* Exact rational arithmetic standing for float arithmetic *)

Abs(i) == IF i < 0 THEN -i ELSE i

RECURSIVE Gcd(_, _)
Gcd(a, b) == IF b = 0 THEN a ELSE Gcd(b, a % b)

Rat(n, d) ==
    LET g == Gcd(Abs(n), Abs(d))
        s == IF d < 0 THEN -1 ELSE 1
    IN  [n |-> (s * n) \div g, d |-> (s * d) \div g]

RInt(i) == [n |-> i, d |-> 1]
RAdd(x, y) == Rat(x.n * y.d + y.n * x.d, x.d * y.d)
RSub(x, y) == Rat(x.n * y.d - y.n * x.d, x.d * y.d)
RMul(x, y) == Rat(x.n * y.n, x.d * y.d)
RDiv(x, y) == Rat(x.n * y.d, x.d * y.n)
RIsZero(x) == x.n = 0
RLess(x, y) == x.n * y.d < y.n * x.d
RLeq(x, y) == x.n * y.d <= y.n * x.d
REq(x, y) == x.n * y.d = y.n * x.d

RECURSIVE Pow10(_)
Pow10(k) == IF k = 0 THEN 1 ELSE 10 * Pow10(k - 1)

(* Python round(x, digits), kept as the integer x * 10^digits *)
RoundHalfEven(x) ==
    LET q == x.n \div x.d
        r == x.n % x.d
    IN  IF 2 * r < x.d THEN q
        ELSE IF 2 * r > x.d THEN q + 1
        ELSE IF q % 2 = 0 THEN q ELSE q + 1

Round(x, digits) == RoundHalfEven(RMul(x, RInt(Pow10(digits))))

(* The value of a persisted field *)
Stored(v, digits) == Rat(v, Pow10(digits))

----------------------------------------------------------------------------
(* Exchange collaborator (BinanceAPIManager): the answers the model fixes *)

get_base_asset_precision == 0
get_quote_asset_precision == 0
PercentDigits == 2
UsdDigits == 2

(* A quantity or price the exchange reports, in units of its precision *)
QtyVal(q) == Stored(q, get_base_asset_precision)
PriceVal(p) == Stored(p, get_quote_asset_precision)

----------------------------------------------------------------------------
(* The handler's working state: the database tables and the trader's      *)
(* fields, threaded through the calls of one handler; exc names the       *)
(* exception that ended it ("" = none)                                    *)

Machine ==
    [paths |-> paths, current |-> current, coin_pnl |-> coin_pnl,
     usd_pnl |-> usd_pnl, ratio |-> ratio,
     failed_buy_order |-> failed_buy_order, failed_buy_path |-> failed_buy_path,
     exc |-> "", ret |-> NoPath, tag |-> "", log |-> <<>>]

Raise(m, e) == [m EXCEPT !.exc = e]
Return(m, v) == [m EXCEPT !.ret = v]
Tag(m, t) == [m EXCEPT !.tag = t]
Ok(m) == m.exc = ""
(* the database as a call finds or leaves it: the paths, the coins they *)
(* hold and the number of rows of each table                             *)
Snapshot(m) ==
    [paths |-> m.paths, current |-> m.current, coin_rows |-> Len(m.coin_pnl),
     usd_rows |-> Len(m.usd_pnl)]
(* what one step of a handler did: its case, the path it worked on, the *)
(* exception it raised and the database it left                         *)
Logged(m) ==
    [m EXCEPT !.log = Append(@, [tag |-> m.tag, path |-> m.ret, exc |-> m.exc,
                                 db |-> Snapshot(m)])]

(* Sequencing: F runs only if nothing was raised before *)
(* m is evaluated once and handed on as a value *)
Bind(m, F(_)) == CHOOSE r \in {F(v) : v \in {m}} : TRUE
Then(m, F(_)) == Bind(m, LAMBDA v : IF Ok(v) THEN F(v) ELSE v)

----------------------------------------------------------------------------
(* Database collaborator (binance_trade_bot/database.py)                   *)

PathIds(m) == 1..Len(m.paths)

(* coins held by the active paths, by path id *)
ActivePathIds(m) == {p \in PathIds(m) : m.paths[p] /\ m.current[p] # NoCoin}
RECURSIVE ActiveCoinsFrom(_, _)
ActiveCoinsFrom(m, p) ==
    IF p > Len(m.paths) THEN <<>>
    ELSE IF p \in ActivePathIds(m) THEN <<m.current[p]>> \o ActiveCoinsFrom(m, p + 1)
    ELSE ActiveCoinsFrom(m, p + 1)
get_active_coins(m) == ActiveCoinsFrom(m, 1)
ActiveCoinSet(m) == {m.current[p] : p \in ActivePathIds(m)}

(* faulty variant: a retired path that held the coin last is found too *)
get_coin_path_retired(m, coin) ==
    LET ps == {p \in PathIds(m) : m.current[p] = coin}
    IN  IF ps = {} THEN NoPath ELSE CHOOSE p \in ps : \A q \in ps : q <= p

(* the active path that holds the coin; the latest one if several do *)
get_coin_path(m, coin) ==
    LET ps == {p \in ActivePathIds(m) : m.current[p] = coin}
    IN  IF ps = {} THEN NoPath ELSE CHOOSE p \in ps : \A q \in ps : q <= p

(* a new active path that holds no coin yet *)
set_new_coin_path(m) ==
    [m EXCEPT !.paths = Append(@, TRUE),
              !.current = [p \in 0..(Len(m.paths) + 1) |->
                              IF p <= Len(m.paths) THEN m.current[p] ELSE NoCoin]]
NewPathId(m) == Len(m.paths) + 1

set_current_coin(m, coin, path) == [m EXCEPT !.current[path] = coin]

deactivate_path(m, path) == [m EXCEPT !.paths[path] = FALSE]

RECURSIVE LastCoinIndex(_, _, _, _)
LastCoinIndex(rows, i, coin, path) ==
    IF i = 0 THEN 0
    ELSE IF rows[i].coin = coin /\ rows[i].path = path THEN i
    ELSE LastCoinIndex(rows, i - 1, coin, path)

get_last_coin_pnl(m, coin, path) ==
    LET i == LastCoinIndex(m.coin_pnl, Len(m.coin_pnl), coin, path)
    IN  IF i = 0 THEN None ELSE m.coin_pnl[i]

RECURSIVE LastUsdIndex(_, _, _)
LastUsdIndex(rows, i, path) ==
    IF i = 0 THEN 0
    ELSE IF rows[i].path = path THEN i
    ELSE LastUsdIndex(rows, i - 1, path)

get_last_usd_pnl(m, path) ==
    LET i == LastUsdIndex(m.usd_pnl, Len(m.usd_pnl), path)
    IN  IF i = 0 THEN None ELSE m.usd_pnl[i]

db_set_coin_pnl(m, row) == [m EXCEPT !.coin_pnl = Append(@, row)]

db_set_usd_pnl(m, path, value, gain, percent_gain, total_gain, total_percent_gain) ==
    [m EXCEPT !.usd_pnl = Append(@,
        [path |-> path, value |-> value, gain |-> gain, percent_gain |-> percent_gain,
         total_gain |-> total_gain, total_percent_gain |-> total_percent_gain])]

----------------------------------------------------------------------------
(* Coin PNL calculations *)

Amt(r) == Stored(r.coin_amount, get_base_asset_precision)
Prc(r) == Stored(r.coin_price, get_quote_asset_precision)
Brv(r) == Stored(r.bridge_value, get_quote_asset_precision)
Gain(r) == Stored(r.coin_gain, get_base_asset_precision)
Pct(r) == Stored(r.percent_gain, PercentDigits)
TGain(r) == Stored(r.total_coin_gain, get_base_asset_precision)
TPct(r) == Stored(r.total_percent_gain, PercentDigits)

(* CoinPnl.__init__: the row as persisted, every field rounded *)
CoinPnlInit(path, coin, coin_amount, coin_price, coin_gain, percent_gain, total_coin_gain, total_percent_gain) ==
    [path |-> path, coin |-> coin,
     coin_amount |-> Round(coin_amount, get_base_asset_precision),
     coin_price |-> Round(coin_price, get_quote_asset_precision),
     bridge_value |-> Round(RMul(coin_amount, coin_price), get_quote_asset_precision),
     coin_gain |-> Round(coin_gain, get_base_asset_precision),
     percent_gain |-> Round(percent_gain, PercentDigits),
     total_coin_gain |-> Round(total_coin_gain, get_base_asset_precision),
     total_percent_gain |-> Round(total_percent_gain, PercentDigits)]

(* faulty variant: the latest row of (path, coin) is updated in place *)
set_coin_pnl_in_place(m, path, coin, quantity, prc, coin_gain, percent_gain, total_coin_gain, total_percent_gain) ==
    LET i == LastCoinIndex(m.coin_pnl, Len(m.coin_pnl), coin, path)
        row == CoinPnlInit(path, coin, quantity, prc, coin_gain, percent_gain,
                           total_coin_gain, total_percent_gain)
    IN  IF i = 0 THEN db_set_coin_pnl(m, row) ELSE [m EXCEPT !.coin_pnl[i] = row]

set_coin_pnl(m, path, coin, quantity, prc, coin_gain, percent_gain, total_coin_gain, total_percent_gain) ==
    db_set_coin_pnl(m, CoinPnlInit(path, coin, quantity, prc, coin_gain, percent_gain,
                                   total_coin_gain, total_percent_gain))

Zero == RInt(0)
Hundred == RInt(100)

(* faulty variant: the totals start again from the new gain *)
update_coin_pnl_restarting(m, coin, path, quantity, prc) ==
    LET previous_coin_pnl == get_last_coin_pnl(m, coin, path)
        coin_gain == RSub(quantity, Amt(previous_coin_pnl))
        percent_gain == RMul(RDiv(coin_gain, Amt(previous_coin_pnl)), Hundred)
    IN  IF previous_coin_pnl = None
        THEN set_coin_pnl(m, path, coin, quantity, prc, Zero, Zero, Zero, Zero)
        ELSE IF previous_coin_pnl.coin_amount = 0
        THEN Raise(m, "ZeroDivisionError")
        ELSE set_coin_pnl(m, path, coin, quantity, prc, coin_gain, percent_gain,
                          coin_gain, percent_gain)

(* faulty variant: the gain of the new row is left out of its total *)
update_coin_pnl_untotalled(m, coin, path, quantity, prc) ==
    LET previous_coin_pnl == get_last_coin_pnl(m, coin, path)
        coin_gain == RSub(quantity, Amt(previous_coin_pnl))
        percent_gain == RMul(RDiv(coin_gain, Amt(previous_coin_pnl)), Hundred)
    IN  IF previous_coin_pnl = None
        THEN set_coin_pnl(m, path, coin, quantity, prc, Zero, Zero, Zero, Zero)
        ELSE IF previous_coin_pnl.coin_amount = 0
        THEN Raise(m, "ZeroDivisionError")
        ELSE set_coin_pnl(m, path, coin, quantity, prc, coin_gain, percent_gain,
                          TGain(previous_coin_pnl), TPct(previous_coin_pnl))

update_coin_pnl(m, coin, path, quantity, prc) ==
    LET previous_coin_pnl == get_last_coin_pnl(m, coin, path)
        coin_gain == RSub(quantity, Amt(previous_coin_pnl))
        percent_gain == RMul(RDiv(coin_gain, Amt(previous_coin_pnl)), Hundred)
    IN  IF previous_coin_pnl = None
        THEN set_coin_pnl(m, path, coin, quantity, prc, Zero, Zero, Zero, Zero)
        ELSE IF previous_coin_pnl.coin_amount = 0
        THEN Raise(m, "ZeroDivisionError")
        ELSE set_coin_pnl(m, path, coin, quantity, prc, coin_gain, percent_gain,
                          RAdd(TGain(previous_coin_pnl), coin_gain),
                          RAdd(TPct(previous_coin_pnl), percent_gain))

(* faulty variant: the deposit is booked as a gain *)
set_deposited_coin_pnl_new_path_as_gain(m, coin, path, quantity, prc) ==
    set_coin_pnl(m, path, coin, quantity, prc, quantity, Zero, quantity, Zero)

set_deposited_coin_pnl_new_path(m, coin, path, quantity, prc) ==
    LET previous_coin_pnl == get_last_coin_pnl(m, coin, path)
    IN  IF previous_coin_pnl = None
        THEN set_coin_pnl(m, path, coin, quantity, prc, Zero, Zero, Zero, Zero)
        ELSE set_coin_pnl(m, path, coin, RAdd(Amt(previous_coin_pnl), quantity), prc,
                          Gain(previous_coin_pnl), Pct(previous_coin_pnl),
                          TGain(previous_coin_pnl), TPct(previous_coin_pnl))

(* the body of the loop of set_deposited_coin_pnl_existing_path *)
DepositedExistingStep(m, enabled_coin, coin, path, quantity, prc) ==
    LET previous_coin_pnl == get_last_coin_pnl(m, enabled_coin, path)
        same == enabled_coin = coin
        last_price == IF same THEN prc ELSE Prc(previous_coin_pnl)
        estimated_quantity ==
            IF same THEN quantity ELSE RDiv(RMul(quantity, prc), last_price)
        total_quantity == RAdd(Amt(previous_coin_pnl), estimated_quantity)
        avg_price ==
            IF RLess(Zero, estimated_quantity)
            THEN RDiv(RAdd(RMul(estimated_quantity, last_price), Brv(previous_coin_pnl)),
                      total_quantity)
            ELSE Prc(previous_coin_pnl)
    IN  IF previous_coin_pnl = None THEN m
        ELSE IF ~same /\ RIsZero(last_price) THEN Raise(m, "ZeroDivisionError")
        ELSE IF RLess(Zero, estimated_quantity) /\ RIsZero(total_quantity)
        THEN Raise(m, "ZeroDivisionError")
        ELSE set_coin_pnl(m, path, enabled_coin, total_quantity, avg_price,
                          Gain(previous_coin_pnl), Pct(previous_coin_pnl),
                          TGain(previous_coin_pnl), TPct(previous_coin_pnl))

RECURSIVE DepositedExistingLoop(_, _, _, _, _, _)
DepositedExistingLoop(m, i, coin, path, quantity, prc) ==
    Bind(m, LAMBDA v :
        IF i > Len(CoinList) \/ ~Ok(v) THEN v
        ELSE DepositedExistingLoop(
                 DepositedExistingStep(v, CoinList[i], coin, path, quantity, prc),
                 i + 1, coin, path, quantity, prc))

set_deposited_coin_pnl_existing_path(m, coin, path, quantity, prc) ==
    DepositedExistingLoop(m, 1, coin, path, quantity, prc)

(* faulty variant: the plain mean of the two values *)
calculate_weighted_average_unweighted(weight_a, weight_b, value_a, value_b) ==
    RDiv(RAdd(value_a, value_b), RInt(2))

(* calculate_weighted_average; the caller checks weight_a + weight_b # 0 *)
calculate_weighted_average(weight_a, weight_b, value_a, value_b) ==
    LET total_amount == RAdd(weight_a, weight_b)
    IN  RAdd(RMul(value_a, RDiv(weight_a, total_amount)),
             RMul(value_b, RDiv(weight_b, total_amount)))

----------------------------------------------------------------------------
(* USD PNL calculations.  A UsdPnl row keeps round(x, 2) as x * 100; its    *)
(* fields carry the names update_usd_pnl reads (value, gain, total_gain).   *)

Usd(v) == Stored(v, UsdDigits)
Bridge == "USDT"

(* manager.get_currency_balance(coin): the exchange holds what the ledger *)
(* last recorded for the coin, nothing if it recorded nothing             *)
RECURSIVE LastAmount(_, _, _)
LastAmount(rows, i, coin) ==
    IF i = 0 THEN 0
    ELSE IF rows[i].coin = coin THEN rows[i].coin_amount
    ELSE LastAmount(rows, i - 1, coin)

get_currency_balance(m, coin) ==
    Stored(LastAmount(m.coin_pnl, Len(m.coin_pnl), coin), get_base_asset_precision)

(* faulty variant: the external adjustment is not taken out of the gain *)
update_usd_pnl_unadjusted(m, coin, path, tx_amt, balance) ==
    LET coin_price == IF coin = Bridge THEN RInt(1) ELSE PriceVal(price[coin])
        usd_value == Round(RMul(balance, coin_price), UsdDigits)
        last_pnl == get_last_usd_pnl(m, path)
        base == Usd(last_pnl.value)
        gain == Round(RSub(Usd(usd_value), base), UsdDigits)
        percent_gain == Round(RMul(RDiv(Usd(gain), base), Hundred), PercentDigits)
        total_gain == Round(RAdd(Usd(last_pnl.total_gain), Usd(gain)), UsdDigits)
        total_percent_gain ==
            Round(RAdd(Stored(last_pnl.total_percent_gain, PercentDigits),
                       Stored(percent_gain, PercentDigits)), PercentDigits)
    IN  IF coin # Bridge /\ price[coin] = 0 THEN Raise(m, "TypeError")
        ELSE IF last_pnl = None THEN db_set_usd_pnl(m, path, usd_value, 0, 0, 0, 0)
        ELSE IF RIsZero(base) THEN Raise(m, "ZeroDivisionError")
        ELSE db_set_usd_pnl(m, path, usd_value, gain, percent_gain, total_gain,
                            total_percent_gain)

(* balance is manager.get_currency_balance(coin), a rational; the ticker of *)
(* coin + "USDT" is the coin's market price, None (0) when it has none      *)
update_usd_pnl(m, coin, path, tx_amt, balance) ==
    LET coin_price == IF coin = Bridge THEN RInt(1) ELSE PriceVal(price[coin])
        usd_value == Round(RMul(balance, coin_price), UsdDigits)
        last_pnl == get_last_usd_pnl(m, path)
        base == RAdd(Usd(last_pnl.value), tx_amt)
        gain == Round(RSub(Usd(usd_value), base), UsdDigits)
        percent_gain == Round(RMul(RDiv(Usd(gain), base), Hundred), PercentDigits)
        total_gain == Round(RAdd(Usd(last_pnl.total_gain), Usd(gain)), UsdDigits)
        total_percent_gain ==
            Round(RAdd(Stored(last_pnl.total_percent_gain, PercentDigits),
                       Stored(percent_gain, PercentDigits)), PercentDigits)
    IN  IF coin # Bridge /\ price[coin] = 0 THEN Raise(m, "TypeError")
        ELSE IF last_pnl = None THEN db_set_usd_pnl(m, path, usd_value, 0, 0, 0, 0)
        ELSE IF RIsZero(base) THEN Raise(m, "ZeroDivisionError")
        ELSE db_set_usd_pnl(m, path, usd_value, gain, percent_gain, total_gain,
                            total_percent_gain)

RECURSIVE UpdateAllUsdLoop(_, _, _)
UpdateAllUsdLoop(m, active_coins, i) ==
    Bind(m, LAMBDA v :
        IF i > Len(active_coins) \/ ~Ok(v) THEN v
        ELSE UpdateAllUsdLoop(
                 update_usd_pnl(v, active_coins[i], get_coin_path(v, active_coins[i]),
                                Zero, get_currency_balance(v, active_coins[i])),
                 active_coins, i + 1))

update_all_usd_pnl(m) ==
    Bind(m, LAMBDA v :
        Bind(get_active_coins(v), LAMBDA active_coins : UpdateAllUsdLoop(v, active_coins, 1)))

merge_path_usd_pnl(m, coin, path_a, path_b, new_path, balance) ==
    LET usd_value == Round(RMul(balance, PriceVal(price[coin])), UsdDigits)
        path_a_last_pnl == get_last_usd_pnl(m, path_a)
        path_b_last_pnl == get_last_usd_pnl(m, path_b)
        old_value == RAdd(Usd(path_a_last_pnl.value), Usd(path_b_last_pnl.value))
        old_gain == RAdd(Usd(path_a_last_pnl.gain), Usd(path_b_last_pnl.gain))
        gain == Round(RSub(Usd(usd_value), old_value), UsdDigits)
        percent_gain == Round(RMul(RDiv(Usd(gain), old_value), Hundred), PercentDigits)
        total_gain == Round(RAdd(old_gain, Usd(gain)), UsdDigits)
        old_total_percent_gain ==
            calculate_weighted_average(
                Usd(path_a_last_pnl.value), Usd(path_b_last_pnl.value),
                Stored(path_a_last_pnl.total_percent_gain, PercentDigits),
                Stored(path_b_last_pnl.total_percent_gain, PercentDigits))
        total_percent_gain ==
            Round(RAdd(old_total_percent_gain, Stored(percent_gain, PercentDigits)),
                  PercentDigits)
    IN  IF price[coin] = 0 THEN Raise(m, "TypeError")
        ELSE IF path_a_last_pnl # None /\ path_b_last_pnl # None
        THEN IF RIsZero(old_value) THEN Raise(m, "ZeroDivisionError")
             ELSE db_set_usd_pnl(m, new_path, usd_value, gain, percent_gain, total_gain,
                                 total_percent_gain)
        ELSE update_usd_pnl(m, coin, new_path, Zero, balance)

----------------------------------------------------------------------------
(* Merging the coin PNL of two paths *)

(* faulty variant: the amount of the destination path is left out of the *)
(* merged quantity                                                       *)
merge_jumping_to_coin_pnl_unmerged(m, new_path, path_a_coin_pnl, path_b_coin_pnl, prc, quantity) ==
    LET previous_amount == RAdd(Amt(path_a_coin_pnl), Amt(path_b_coin_pnl))
        coin_gain == RSub(quantity, previous_amount)
    IN  IF path_b_coin_pnl = None THEN Raise(m, "AttributeError")
        ELSE IF path_a_coin_pnl = None
        THEN set_coin_pnl(m, new_path, path_b_coin_pnl.coin, quantity, prc,
                          Gain(path_b_coin_pnl), Pct(path_b_coin_pnl),
                          TGain(path_b_coin_pnl), TPct(path_b_coin_pnl))
        ELSE IF RIsZero(previous_amount) THEN Raise(m, "ZeroDivisionError")
        ELSE set_coin_pnl(m, new_path, path_b_coin_pnl.coin, quantity, prc,
                          coin_gain, RMul(RDiv(coin_gain, previous_amount), Hundred),
                          RAdd(RAdd(TGain(path_a_coin_pnl), TGain(path_b_coin_pnl)), coin_gain),
                          TPct(path_b_coin_pnl))

merge_jumping_to_coin_pnl(m, new_path, path_a_coin_pnl, path_b_coin_pnl, prc, quantity) ==
    LET merged_quantity == RAdd(quantity, Amt(path_b_coin_pnl))
        previous_amount == RAdd(Amt(path_a_coin_pnl), Amt(path_b_coin_pnl))
        avg_price == calculate_weighted_average(quantity, Amt(path_b_coin_pnl),
                                                Prc(path_a_coin_pnl), Prc(path_b_coin_pnl))
        coin_gain == RSub(merged_quantity, previous_amount)
        percent_gain == RMul(RDiv(coin_gain, previous_amount), Hundred)
    IN  IF path_b_coin_pnl = None THEN Raise(m, "AttributeError")
        ELSE IF path_a_coin_pnl = None
        THEN set_coin_pnl(m, new_path, path_b_coin_pnl.coin, merged_quantity, prc,
                          Gain(path_b_coin_pnl), Pct(path_b_coin_pnl),
                          TGain(path_b_coin_pnl), TPct(path_b_coin_pnl))
        ELSE IF RIsZero(merged_quantity) \/ RIsZero(previous_amount)
        THEN Raise(m, "ZeroDivisionError")
        ELSE set_coin_pnl(m, new_path, path_b_coin_pnl.coin, merged_quantity, avg_price,
                          coin_gain, percent_gain,
                          RAdd(RAdd(TGain(path_a_coin_pnl), TGain(path_b_coin_pnl)), coin_gain),
                          RAdd(RAdd(TPct(path_a_coin_pnl), TPct(path_b_coin_pnl)), percent_gain))

(* faulty variant: the percentages of the known side are carried over as *)
(* they are                                                              *)
merge_single_path_coin_pnl_unweighted(m, new_path, path_a_coin_amt, path_b_coin_amt, merging_coin_pnl) ==
    LET merged_amount == RAdd(path_a_coin_amt, path_b_coin_amt)
    IN  IF RIsZero(merged_amount) THEN Raise(m, "ZeroDivisionError")
        ELSE set_coin_pnl(m, new_path, merging_coin_pnl.coin, merged_amount,
                          Prc(merging_coin_pnl), Gain(merging_coin_pnl),
                          Pct(merging_coin_pnl), TGain(merging_coin_pnl),
                          TPct(merging_coin_pnl))

merge_single_path_coin_pnl(m, new_path, path_a_coin_amt, path_b_coin_amt, merging_coin_pnl) ==
    LET merged_amount == RAdd(path_a_coin_amt, path_b_coin_amt)
        path_a_weight_multiplier ==
            RSub(RInt(1), RDiv(Amt(merging_coin_pnl), merged_amount))
    IN  IF RIsZero(merged_amount) THEN Raise(m, "ZeroDivisionError")
        ELSE set_coin_pnl(m, new_path, merging_coin_pnl.coin, merged_amount,
                          Prc(merging_coin_pnl), Gain(merging_coin_pnl),
                          RMul(Pct(merging_coin_pnl), path_a_weight_multiplier),
                          TGain(merging_coin_pnl),
                          RMul(TPct(merging_coin_pnl), path_a_weight_multiplier))

(* faulty variant: the gains of path_b are left out of the merged row *)
merge_double_path_coin_pnl_one_sided(m, new_path, path_a_coin_pnl, path_b_coin_pnl) ==
    LET path_a_amt == Amt(path_a_coin_pnl)
        path_b_amt == Amt(path_b_coin_pnl)
    IN  IF RIsZero(RAdd(path_a_amt, path_b_amt)) THEN Raise(m, "ZeroDivisionError")
        ELSE set_coin_pnl(m, new_path, path_a_coin_pnl.coin, RAdd(path_a_amt, path_b_amt),
                 calculate_weighted_average(path_a_amt, path_b_amt,
                                            Prc(path_a_coin_pnl), Prc(path_b_coin_pnl)),
                 Gain(path_a_coin_pnl), Pct(path_a_coin_pnl),
                 TGain(path_a_coin_pnl), TPct(path_a_coin_pnl))

merge_double_path_coin_pnl(m, new_path, path_a_coin_pnl, path_b_coin_pnl) ==
    LET path_a_amt == Amt(path_a_coin_pnl)
        path_b_amt == Amt(path_b_coin_pnl)
    IN  IF RIsZero(RAdd(path_a_amt, path_b_amt)) THEN Raise(m, "ZeroDivisionError")
        ELSE set_coin_pnl(m, new_path, path_a_coin_pnl.coin, RAdd(path_a_amt, path_b_amt),
                 calculate_weighted_average(path_a_amt, path_b_amt,
                                            Prc(path_a_coin_pnl), Prc(path_b_coin_pnl)),
                 RAdd(Gain(path_a_coin_pnl), Gain(path_b_coin_pnl)),
                 calculate_weighted_average(path_a_amt, path_b_amt,
                                            Pct(path_a_coin_pnl), Pct(path_b_coin_pnl)),
                 RAdd(TGain(path_a_coin_pnl), TGain(path_b_coin_pnl)),
                 calculate_weighted_average(path_a_amt, path_b_amt,
                                            TPct(path_a_coin_pnl), TPct(path_b_coin_pnl)))

(* the body of the loop of merge_paths_coin_pnl *)
MergeCoinStep(m, coin, to_coin, path_a, path_b, new_path, quantity, prc) ==
    LET path_a_coin_pnl == get_last_coin_pnl(m, coin, path_a)
        path_b_coin_pnl == get_last_coin_pnl(m, coin, path_b)
        path_b_previous_coin_pnl == get_last_coin_pnl(m, to_coin, path_b)
    IN  IF coin = to_coin
        THEN merge_jumping_to_coin_pnl(m, new_path, path_a_coin_pnl, path_b_coin_pnl,
                                       prc, quantity)
        ELSE IF path_a_coin_pnl = None /\ path_b_coin_pnl = None THEN m
        ELSE IF path_b_coin_pnl = None
        THEN IF RIsZero(Prc(path_a_coin_pnl)) THEN Raise(m, "ZeroDivisionError")
             ELSE IF path_b_previous_coin_pnl = None THEN Raise(m, "AttributeError")
             ELSE merge_single_path_coin_pnl(m, new_path,
                      RDiv(RMul(quantity, prc), Prc(path_a_coin_pnl)),
                      RDiv(Brv(path_b_previous_coin_pnl), Prc(path_a_coin_pnl)),
                      path_a_coin_pnl)
        ELSE IF path_a_coin_pnl = None
        THEN IF RIsZero(Prc(path_b_coin_pnl)) THEN Raise(m, "ZeroDivisionError")
             ELSE merge_single_path_coin_pnl(m, new_path,
                      RDiv(RMul(quantity, prc), Prc(path_b_coin_pnl)),
                      Amt(path_b_coin_pnl), path_b_coin_pnl)
        ELSE merge_double_path_coin_pnl(m, new_path, path_a_coin_pnl, path_b_coin_pnl)

RECURSIVE MergeCoinLoop(_, _, _, _, _, _, _, _)
MergeCoinLoop(m, i, to_coin, path_a, path_b, new_path, quantity, prc) ==
    Bind(m, LAMBDA v :
        IF i > Len(CoinList) \/ ~Ok(v) THEN v
        ELSE MergeCoinLoop(
                 MergeCoinStep(v, CoinList[i], to_coin, path_a, path_b, new_path, quantity,
                               prc),
                 i + 1, to_coin, path_a, path_b, new_path, quantity, prc))

merge_paths_coin_pnl(m, to_coin, path_a, path_b, new_path, quantity, prc) ==
    MergeCoinLoop(m, 1, to_coin, path_a, path_b, new_path, quantity, prc)

(* get_path of a Coin: merge_paths is only called with coins *)
get_path(m, coin) == get_coin_path(m, coin)

(* merge_paths; ret is the new path, NoPath for None *)
merge_paths(m, merge_from, merge_to, filled_quantity, prc) ==
    LET path_a == get_path(m, merge_from)
        path_b == get_path(m, merge_to)
        new_path == NewPathId(m)
        m1 == set_new_coin_path(m)
        m2 == merge_paths_coin_pnl(m1, merge_to, path_a, path_b, new_path,
                                   filled_quantity, prc)
        m3 == Then(m2, LAMBDA x :
                  merge_path_usd_pnl(x, merge_to, path_a, path_b, new_path,
                                     get_currency_balance(x, merge_to)))
        m4 == Then(m3, LAMBDA x :
                  Return(deactivate_path(deactivate_path(x, path_a), path_b), new_path))
    IN  IF path_a = NoPath \/ path_b = NoPath THEN Return(m1, NoPath) ELSE m4

----------------------------------------------------------------------------
(* Scouting and jumping *)

Pairs == {pr \in Coins \X Coins : pr[1] # pr[2]}
LedgerPairs == {pr \in Pairs : pr[1] \in LedgerCoins /\ pr[2] \in LedgerCoins}

(* Config and the exchange's fee: get_fee(coin, bridge, selling) *)
RATIO_CALC_DEFAULT == "default"
RATIO_CALC_SCOUT_MARGIN == "scout_margin"
get_fee == Rat(1, 1000)

(* get_price: the fill price of a BinanceOrder *)
get_price(result) ==
    IF result.price = 0
    THEN RDiv(QtyVal(result.cumulative_quote_qty), QtyVal(result.cumulative_filled_quantity))
    ELSE PriceVal(result.price)

(* faulty variant: the balance of the from-coin is not looked at *)
update_trade_threshold_always(m, coin, coin_price, over) ==
    IF coin_price = None \/ RIsZero(coin_price) THEN m
    ELSE [m EXCEPT !.ratio = [pr \in Pairs |->
              IF pr[2] = coin /\ price[pr[1]] # 0
              THEN RDiv(PriceVal(price[pr[1]]), coin_price)
              ELSE m.ratio[pr]]]

(* update_trade_threshold; over = the from-coins whose held balance is  *)
(* worth more than the minimum notional                                 *)
update_trade_threshold(m, coin, coin_price, over) ==
    IF coin_price = None \/ RIsZero(coin_price) THEN m
    ELSE [m EXCEPT !.ratio = [pr \in Pairs |->
              IF pr[2] = coin /\ price[pr[1]] # 0 /\ pr[1] \notin over
              THEN RDiv(PriceVal(price[pr[1]]), coin_price)
              ELSE m.ratio[pr]]]

initialize_trade_thresholds(m) ==
    [m EXCEPT !.ratio = [pr \in Pairs |->
         IF m.ratio[pr] = None /\ price[pr[1]] # 0 /\ price[pr[2]] # 0
         THEN RDiv(PriceVal(price[pr[1]]), PriceVal(price[pr[2]]))
         ELSE m.ratio[pr]]]

(* faulty variant: the fee is charged on one unit, not on the ratio *)
Score_flat_fee(mode, multiplier, pair_ratio, coin_price, optional_coin_price) ==
    LET coin_opt_coin_ratio == RDiv(coin_price, optional_coin_price)
    IN  RSub(RSub(coin_opt_coin_ratio,
                  RMul(RAdd(get_fee, get_fee), RInt(multiplier))),
             pair_ratio)

(* faulty variant: the two fees are added in scout-margin mode *)
Score_additive_fee(mode, multiplier, pair_ratio, coin_price, optional_coin_price) ==
    LET coin_opt_coin_ratio == RDiv(coin_price, optional_coin_price)
    IN  RSub(RDiv(RMul(RSub(RInt(1), RAdd(get_fee, get_fee)), coin_opt_coin_ratio),
                  pair_ratio),
             RAdd(RInt(1), Rat(multiplier, 100)))

(* the score _get_ratios gives one pair *)
Score(mode, multiplier, pair_ratio, coin_price, optional_coin_price) ==
    LET coin_opt_coin_ratio == RDiv(coin_price, optional_coin_price)
        from_fee == get_fee
        to_fee == get_fee
    IN  IF mode = RATIO_CALC_DEFAULT
        THEN RSub(RSub(coin_opt_coin_ratio,
                       RMul(RMul(RAdd(from_fee, to_fee), RInt(multiplier)),
                            coin_opt_coin_ratio)),
                  pair_ratio)
        ELSE RSub(RDiv(RMul(RSub(RInt(1), RSub(RAdd(from_fee, to_fee),
                                               RMul(from_fee, to_fee))),
                            coin_opt_coin_ratio),
                       pair_ratio),
                  RAdd(RInt(1), Rat(multiplier, 100)))

(* _get_ratios: ratio_dict as the list of its items, in insertion order; *)
(* raised = the exception the scoring ends with                           *)
RECURSIVE GetRatiosLoop(_, _, _, _, _, _)
GetRatiosLoop(cfg, rt, coin, coin_price, excluded, i) ==
    IF i > Len(CoinList) THEN [items |-> <<>>, raised |-> ""]
    ELSE LET to_coin == CoinList[i]
             rest == GetRatiosLoop(cfg, rt, coin, coin_price, excluded, i + 1)
         IN  IF to_coin = coin \/ to_coin \in excluded \/ price[to_coin] = 0 THEN rest
             ELSE IF rt[<<coin, to_coin>>] = None
             THEN [items |-> <<>>, raised |-> "TypeError"]
             ELSE IF cfg.RATIO_CALC = RATIO_CALC_SCOUT_MARGIN /\ RIsZero(rt[<<coin, to_coin>>])
             THEN [items |-> <<>>, raised |-> "ZeroDivisionError"]
             ELSE IF rest.raised # "" THEN rest
             ELSE [items |-> <<[pair |-> <<coin, to_coin>>,
                                score |-> Score(cfg.RATIO_CALC, cfg.SCOUT_MULTIPLIER,
                                                rt[<<coin, to_coin>>], coin_price,
                                                PriceVal(price[to_coin]))]>> \o rest.items,
                   raised |-> ""]

get_ratios(cfg, rt, coin, coin_price, excluded) ==
    GetRatiosLoop(cfg, rt, coin, coin_price, excluded, 1)

(* keep only ratios bigger than zero *)
PositiveItems(items) == SelectSeq(items, LAMBDA it : RLess(Zero, it.score))

(* faulty variant: the first viable pair, whatever its score *)
BestPair_first(items) == items[1].pair

(* max(ratio_dict, key=ratio_dict.get): the first item with the biggest score *)
BestPair(items) ==
    LET i == CHOOSE k \in 1..Len(items) :
                 /\ \A j \in 1..Len(items) : RLeq(items[j].score, items[k].score)
                 /\ \A j \in 1..(k - 1) : RLess(items[j].score, items[k].score)
    IN  items[i].pair

(* the pair _jump_to_best_coin jumps to, None if it does not jump *)
jump_target(cfg, rt, coin, coin_price, excluded) ==
    LET viable == PositiveItems(get_ratios(cfg, rt, coin, coin_price, excluded).items)
    IN  IF viable = <<>> THEN None ELSE [pair |-> BestPair(viable)]

(* faulty variant: every jump opens a path *)
get_coin_path_or_new_always(m, coin) == Return(set_new_coin_path(m), NewPathId(m))

(* AutoTrader.get_coin_path: the coin's path, a new one if it has none *)
get_coin_path_or_new(m, coin) ==
    LET path == get_coin_path(m, coin)
    IN  IF path = NoPath THEN Return(set_new_coin_path(m), NewPathId(m))
        ELSE Return(m, path)

(* faulty variant: a coin some path has history of counts as held *)
is_paths_merging_history(m, coin) ==
    \E i \in 1..Len(m.coin_pnl) : m.coin_pnl[i].coin = coin

is_paths_merging(m, coin) == coin \in ActiveCoinSet(m)

(* transaction_through_bridge, after the sell: the path of the coin sold  *)
(* and the PNL of a bridge deposit (bridge_balance > min_notional)        *)
BeforeBuy(m, pair, bridge_deposit, bridge_balance) ==
    LET m1 == get_coin_path_or_new(m, pair[1])
        path == m1.ret
        m2 == set_deposited_coin_pnl_existing_path(m1, pair[1], path,
                                                   QtyVal(bridge_balance), RInt(1))
        proceeds == RMul(get_currency_balance(m1, pair[1]), PriceVal(price[pair[1]]))
        m3 == Then(m2, LAMBDA x : update_usd_pnl(x, Bridge, path, QtyVal(bridge_balance),
                                                 RAdd(QtyVal(bridge_balance), proceeds)))
    IN  IF bridge_deposit THEN m3 ELSE m1

(* transaction_through_bridge, the buy order filled *)
AfterBuy(m, pair, path, result, coin_amt, over) ==
    LET prc == get_price(result)
        is_merging == is_paths_merging(m, pair[2])
        m1 == IF is_merging
              THEN Logged(Tag(merge_paths(m, pair[1], pair[2],
                                          QtyVal(result.cumulative_filled_quantity), prc),
                              "merge"))
              ELSE Logged(Tag(Return(update_coin_pnl(m, pair[2], path, QtyVal(coin_amt),
                                                     prc), path), "jump"))
        m2 == Then(m1, LAMBDA x : set_current_coin(x, pair[2], x.ret))
        m3 == Then(m2, LAMBDA x : update_trade_threshold(x, pair[2], prc, over))
        m4 == Then(m3, LAMBDA x : update_all_usd_pnl(x))
    IN  Then(m4, LAMBDA x : [x EXCEPT !.failed_buy_order = FALSE,
                                      !.failed_buy_path = NoPath])

(* faulty variant: the jump goes on after the rejected sell and records *)
(* the destination coin on the path of the coin it could not sell       *)
SellRejected_recording(m, pair) ==
    Bind(get_coin_path_or_new(m, pair[1]), LAMBDA v :
        Return(set_current_coin(v, pair[2], v.ret), NoPath))

(* transaction_through_bridge, the sell order rejected: return None *)
SellRejected(m, pair) == m

(* faulty variant: the path in flight is not kept *)
BuyRejected_without_path(m, path) ==
    Tag([m EXCEPT !.failed_buy_order = TRUE, !.failed_buy_path = NoPath], "buy_failed")

(* transaction_through_bridge, the buy order rejected *)
BuyRejected(m, path) ==
    Tag([m EXCEPT !.failed_buy_order = TRUE, !.failed_buy_path = path], "buy_failed")

(* get_min_notional(coin, bridge): the exchange's filter of the symbol, in *)
(* units of the bridge; it differs from symbol to symbol                  *)
get_min_notional(coin) == CHOOSE i \in 1..Len(CoinList) : CoinList[i] = coin

(* bridge_scout; bridge_balance = get_currency_balance(bridge), rejected = *)
(* the number of buy orders the exchange rejects before it fills one.  tag *)
(* = the coin bought ("" = None).                                          *)
RECURSIVE BridgeScoutLoop(_, _, _, _)
BridgeScoutLoop(m, i, bridge_balance, rejected) ==
    IF i > Len(CoinList) THEN m
    ELSE LET coin == CoinList[i]
             g == get_ratios(config, m.ratio, coin, PriceVal(price[coin]), {})
             sink == \A k \in 1..Len(g.items) : ~RLess(Zero, g.items[k].score)
         IN  IF price[coin] = 0 THEN BridgeScoutLoop(m, i + 1, bridge_balance, rejected)
             ELSE IF g.raised # "" THEN Raise(m, g.raised)
             ELSE IF sink /\ bridge_balance > get_min_notional(coin)
             THEN IF rejected = 0
                  THEN Tag([set_current_coin(m, coin, NoPath)
                                EXCEPT !.failed_buy_order = FALSE], coin)
                  ELSE BridgeScoutLoop([m EXCEPT !.failed_buy_order = TRUE],
                                       i + 1, bridge_balance, rejected - 1)
             ELSE BridgeScoutLoop(m, i + 1, bridge_balance, rejected)

(* faulty variant: the bridge balance is not compared with the minimum *)
(* notional                                                            *)
bridge_scout_unfunded(m, bridge_balance, rejected) ==
    BridgeScoutLoop(m, 1, MaxBridge + 1, rejected)

bridge_scout(m, bridge_balance, rejected) ==
    BridgeScoutLoop(m, 1, bridge_balance, rejected)

----------------------------------------------------------------------------
(* Handling manual transactions *)

Transactions ==
    [coin : LedgerCoins, coin_amount : Qty, bridge_price : Prices, deposit : BOOLEAN]

(* Coins deposited on exchange but not yet activated on the bot *)
new_coins(r) == r.exchange_active_coins \ r.bot_active_coins
(* Coins withdrawn on exchange not yet deactivated on the bot *)
removed_coins(r) == r.bot_active_coins \ r.exchange_active_coins

TxCase(r, tx) ==
    IF tx.coin \in new_coins(r) /\ tx.deposit THEN "new"
    ELSE IF tx.coin \in removed_coins(r) /\ ~tx.deposit THEN "removed"
    ELSE IF tx.coin \in r.exchange_active_coins /\ tx.coin \in r.bot_active_coins
    THEN "adjust"
    ELSE "none"

(* faulty variant: without a new path the coin is still made current *)
deposit_new_coin_unguarded(m, tx, alloc_ok) ==
    LET new_path == NewPathId(m)
        n1 == set_current_coin(set_new_coin_path(m), tx.coin, new_path)
        n2 == set_deposited_coin_pnl_new_path(n1, tx.coin, new_path,
                                              QtyVal(tx.coin_amount),
                                              PriceVal(tx.bridge_price))
        n3 == Then(n2, LAMBDA x : update_all_usd_pnl(x))
    IN  IF alloc_ok THEN Tag(Return(n3, new_path), "new")
        ELSE Tag(set_current_coin(m, tx.coin, NoPath), "alloc_failed")

(* case 1: the coin is new on the exchange and the transaction a deposit; *)
(* alloc_ok = the database returns a new path                             *)
deposit_new_coin(m, tx, alloc_ok) ==
    LET new_path == NewPathId(m)
        n1 == set_current_coin(set_new_coin_path(m), tx.coin, new_path)
        n2 == set_deposited_coin_pnl_new_path(n1, tx.coin, new_path,
                                              QtyVal(tx.coin_amount),
                                              PriceVal(tx.bridge_price))
        n3 == Then(n2, LAMBDA x : update_all_usd_pnl(x))
    IN  IF alloc_ok THEN Tag(Return(n3, new_path), "new")
        ELSE Tag(m, "alloc_failed")

(* faulty variant: the withdrawal is also booked on the path it retires *)
withdraw_removed_coin_booked(m, tx) ==
    LET old_path == get_coin_path(m, tx.coin)
        booked == set_deposited_coin_pnl_existing_path(
                      m, tx.coin, old_path, RSub(Zero, QtyVal(tx.coin_amount)),
                      PriceVal(tx.bridge_price))
    IN  IF old_path = NoPath THEN Tag(m, "no_path")
        ELSE Tag(Return(Then(booked, LAMBDA x : deactivate_path(x, old_path)), old_path),
                 "removed")

(* case 2: the coin left the exchange and the transaction is a withdrawal *)
withdraw_removed_coin(m, tx) ==
    LET old_path == get_coin_path(m, tx.coin)
    IN  IF old_path = NoPath THEN Tag(m, "no_path")
        ELSE Tag(Return(deactivate_path(m, old_path), old_path), "removed")

(* case 3: a deposit or withdrawal on a coin active on both sides *)
adjust_active_coin(m, tx) ==
    LET coin_path == get_coin_path(m, tx.coin)
        quantity == IF tx.deposit THEN QtyVal(tx.coin_amount)
                    ELSE RSub(Zero, QtyVal(tx.coin_amount))
        a1 == set_deposited_coin_pnl_existing_path(m, tx.coin, coin_path, quantity,
                                                   PriceVal(tx.bridge_price))
        a2 == Then(a1, LAMBDA x : update_usd_pnl(x, tx.coin, coin_path,
                                      RMul(quantity, PriceVal(tx.bridge_price)),
                                      get_currency_balance(x, tx.coin)))
    IN  IF coin_path = NoPath THEN Tag(m, "no_path")
        ELSE Tag(Return(a2, coin_path), "adjust")

(* one pass of the loop of handle_manual_transactions *)
handle_transaction(m, r, tx, alloc_ok) ==
    LET case == TxCase(r, tx)
    IN  CASE case = "new" -> deposit_new_coin(m, tx, alloc_ok)
          [] case = "removed" -> withdraw_removed_coin(m, tx)
          [] case = "adjust" -> adjust_active_coin(m, tx)
          [] OTHER -> Tag(Return(m, NoPath), "none")

(* the loop of handle_manual_transactions; alloc_fail = the pass in which *)
(* the database returns no new path (0 = none)                            *)
RECURSIVE HandleLoop(_, _, _, _, _)
HandleLoop(m, r, transactions, i, alloc_fail) ==
    Bind(m, LAMBDA v :
        IF i > Len(transactions) \/ ~Ok(v) THEN v
        ELSE HandleLoop(Logged(handle_transaction(v, r, transactions[i], i # alloc_fail)),
                        r, transactions, i + 1, alloc_fail))

(* faulty variant: lists that are not passed default to the coins the   *)
(* database holds as active                                             *)
handle_manual_transactions_defaulting(m, transactions, supplied, exchange_active_coins, bot_active_coins, alloc_fail) ==
    LET r == [exchange_active_coins |-> IF supplied THEN exchange_active_coins
                                        ELSE ActiveCoinSet(m),
              bot_active_coins |-> IF supplied THEN bot_active_coins
                                   ELSE ActiveCoinSet(m)]
    IN  HandleLoop(m, r, transactions, 1, alloc_fail)

(* handle_manual_transactions(transactions, exchange_active_coins,        *)
(* bot_active_coins); supplied = the two lists are passed                 *)
handle_manual_transactions(m, transactions, supplied, exchange_active_coins, bot_active_coins, alloc_fail) ==
    LET r == [exchange_active_coins |-> IF supplied THEN exchange_active_coins ELSE {},
              bot_active_coins |-> IF supplied THEN bot_active_coins ELSE {}]
    IN  HandleLoop(m, r, transactions, 1, alloc_fail)

----------------------------------------------------------------------------
(* The state machine *)

(* a handler call and what it did: the coins it was called with, the way  *)
(* it ended, the path it returned, the exception it raised, the database   *)
(* it found (for a jump: after the sell and the bridge deposit), what its  *)
(* steps did, and for a reconciliation the batch and the two coin lists    *)
Op(op, coin, to, kind, entry, m) ==
    [op |-> op, coin |-> coin, to |-> to, kind |-> kind, exc |-> m.exc,
     path |-> m.ret, entry |-> Snapshot(entry), log |-> m.log,
     supplied |-> FALSE, transactions |-> <<>>,
     exchange_active_coins |-> {}, bot_active_coins |-> {}]

(* no call is on record *)
NoOp ==
    [op |-> "", coin |-> NoCoin, to |-> NoCoin, kind |-> "", exc |-> "",
     path |-> NoPath,
     entry |-> [paths |-> <<>>, current |-> [p \in {NoPath} |-> NoCoin],
                coin_rows |-> 0, usd_rows |-> 0],
     log |-> <<>>, supplied |-> FALSE, transactions |-> <<>>,
     exchange_active_coins |-> {}, bot_active_coins |-> {}]

Init ==
    /\ paths = <<>>
    /\ current = [p \in {NoPath} |-> NoCoin]
    /\ coin_pnl = <<>>
    /\ usd_pnl = <<>>
    /\ ratio = [pr \in Pairs |-> None]
    /\ failed_buy_order = FALSE
    /\ failed_buy_path = NoPath
    /\ config = [RATIO_CALC |-> RATIO_CALC_DEFAULT, SCOUT_MULTIPLIER |-> 5]
    /\ price = [c \in Coins |-> 1]
    /\ lastOp = NoOp
    /\ calls = 0

(* the call wrote nothing: neither to the database nor to the trader *)
Unwritten(m) ==
    /\ m.paths = paths
    /\ m.current = current
    /\ m.coin_pnl = coin_pnl
    /\ m.usd_pnl = usd_pnl
    /\ m.ratio = ratio
    /\ m.failed_buy_order = failed_buy_order
    /\ m.failed_buy_path = failed_buy_path

(* lastOp is an observation of the call just made.  A state that carries  *)
(* one is explored no further: the same call is also taken unobserved, and *)
(* what can follow it is explored from there, within MaxCalls calls        *)
Live == lastOp = NoOp /\ calls < MaxCalls

(* the handler's writes *)
Assigned(m, lo) ==
    /\ paths' = m.paths
    /\ current' = m.current
    /\ coin_pnl' = m.coin_pnl
    /\ usd_pnl' = m.usd_pnl
    /\ ratio' = m.ratio
    /\ failed_buy_order' = m.failed_buy_order
    /\ failed_buy_path' = m.failed_buy_path
    /\ \E observed \in BOOLEAN : lastOp' = IF observed THEN lo ELSE NoOp

(* the handler's writes, within the bounds of the model *)
Written(m, lo) ==
    /\ Len(m.paths) <= MaxPaths
    /\ Len(m.coin_pnl) <= MaxCoinRows
    /\ Len(m.usd_pnl) <= MaxUsdRows
    /\ Assigned(m, lo)

Commit(m, lo) ==
    /\ Written(m, lo)
    /\ calls' = IF Unwritten(m) THEN calls ELSE calls + 1

(* the exchange: a coin's price moves, or its symbol has no price *)
Tick(c, p) ==
    /\ Live
    /\ price[c] # p
    /\ \A pr \in Pairs : ratio[pr] # None
    /\ \A d \in Coins \ {c} : price[d] = 1
    /\ price' = [price EXCEPT ![c] = p]
    /\ lastOp' = NoOp
    /\ UNCHANGED <<paths, current, coin_pnl, usd_pnl, ratio, failed_buy_order,
                   failed_buy_path, config, calls>>

(* initialize() has back-filled the ratios: the bot starts with it *)
Started == \E pr \in Pairs : ratio[pr] # None

Initialize ==
    /\ Live
    /\ \E pr \in Pairs : ratio[pr] = None
    /\ \E m1 \in {initialize_trade_thresholds(Machine)} :
         Written(m1, Op("initialize", NoCoin, NoCoin, "", Machine, m1))
    /\ UNCHANGED <<config, price, calls>>

(* What the exchange may answer during one jump: the bridge balance before  *)
(* the sell (0 = below the minimum notional), the filled quantities, the    *)
(* order's price field (0 = not set: a market order), whether a from-coin   *)
(* may be held above the minimum notional                                   *)
LedgerEnv == [bridge_balances |-> {0, 1}, qty |-> Qty, forms |-> {1}, over |-> FALSE]
ScoutEnv == [bridge_balances |-> {0}, qty |-> {1}, forms |-> {0, 1}, over |-> TRUE]

BuyResults(p, E) ==
    {[price |-> f * p, cumulative_filled_quantity |-> q, cumulative_quote_qty |-> q * p] :
        f \in E.forms, q \in E.qty}
OverSets(to, E) == {{}} \cup (IF E.over THEN {{c} : c \in Coins \ {to}} ELSE {})

(* transaction_through_bridge(pair, sell_price, buy_price) *)
TransactionThroughBridge(pair, buy_price, E) ==
    \E can_sell \in BOOLEAN :
      \E sell_ok \in (IF can_sell THEN BOOLEAN ELSE {TRUE}) :
        IF ~sell_ok
        THEN \E m0 \in {SellRejected(Machine, pair)} :
               Commit(m0, Op("jump", pair[1], pair[2], "sell_failed", Machine, m0))
        ELSE \E bridge_balance \in (IF can_sell THEN E.bridge_balances ELSE {0}) :
              \E m1 \in {BeforeBuy(Machine, pair, bridge_balance > 0, bridge_balance)} :
                IF ~Ok(m1)
                THEN Commit(m1, Op("jump", pair[1], pair[2], "before_buy", m1, m1))
                ELSE \E bought \in BOOLEAN :
                       IF ~bought
                       THEN \E m2 \in {BuyRejected(m1, m1.ret)} :
                              Commit(m2, Op("jump", pair[1], pair[2], "buy_failed", m1, m1))
                       ELSE \E result \in BuyResults(buy_price, E),
                               over \in OverSets(pair[2], E) :
                              \E m2 \in {AfterBuy(m1, pair, m1.ret, result,
                                                  result.cumulative_filled_quantity,
                                                  over)} :
                                Commit(m2, Op("jump", pair[1], pair[2], m2.tag, m1, m2))

(* a strategy jumps over a pair at the buy price it scouted *)
Jump(pair) ==
    /\ Live
    /\ Started
    /\ price[pair[2]] # 0
    /\ TransactionThroughBridge(pair, price[pair[2]], LedgerEnv)
    /\ UNCHANGED <<config, price>>

(* _jump_to_best_coin(coin, coin_price): the strategy scouts from a coin *)
JumpToBestCoin(coin) ==
    /\ Live
    /\ Started
    /\ price[coin] # 0
    /\ \E g \in {get_ratios(config, ratio, coin, PriceVal(price[coin]), {})},
          t \in {jump_target(config, ratio, coin, PriceVal(price[coin]), {})},
          m0 \in {Machine} :
         IF g.raised # ""
         THEN Commit(m0, Op("scout", coin, NoCoin, "none", m0, Raise(m0, g.raised)))
         ELSE IF t = None
         THEN Commit(m0, Op("scout", coin, NoCoin, "none", m0, m0))
         ELSE TransactionThroughBridge(t.pair, price[t.pair[2]], ScoutEnv)
    /\ UNCHANGED <<config, price>>

BridgeScout ==
    /\ Live
    /\ Started
    /\ \E bridge_balance \in 1..MaxBridge :
       \E rejected \in 0..(bridge_balance - 1) :
         \E m1 \in {bridge_scout(Machine, bridge_balance, rejected)} :
           Commit(m1, Op("bridge_scout", NoCoin, m1.tag, "", Machine, m1)
                      @@ [bridge_balance |-> bridge_balance, rejected |-> rejected,
                          ratio_before |-> ratio,
                          failed_before |-> <<failed_buy_order, failed_buy_path>>])
    /\ UNCHANGED <<config, price>>

(* the batches reconciled: one transaction, or several deposits of one unit *)
UnitDeposits == {tx \in Transactions : tx.deposit /\ tx.coin_amount = 1}
Batches ==
    [1..1 -> Transactions] \cup UNION {[1..n -> UnitDeposits] : n \in 2..MaxBatch}

(* the passes of a batch that ask the database for a new path *)
Allocating(transactions, exch, bot) ==
    {i \in 1..Len(transactions) :
        TxCase([exchange_active_coins |-> exch, bot_active_coins |-> bot],
               transactions[i]) = "new"}

(* handle_manual_transactions is called with a batch, with or without the *)
(* coins active on the exchange and on the bot                             *)
Reconcile(transactions, supplied, exch, bot) ==
    /\ Live
    /\ Started
    /\ \E alloc_fail \in {0} \cup (IF supplied THEN Allocating(transactions, exch, bot)
                                   ELSE {}) :
         \E m1 \in {handle_manual_transactions(Machine, transactions, supplied, exch,
                                               bot, alloc_fail)} :
           \E lo \in {[Op("reconcile", NoCoin, NoCoin, "", Machine, m1) EXCEPT
                          !.supplied = supplied,
                          !.transactions = transactions,
                          !.exchange_active_coins = exch,
                          !.bot_active_coins = bot,
                          !.path = NoPath]} :
             Commit(m1, lo)
    /\ UNCHANGED <<config, price>>

(* the two coin lists a caller may pass, as far as the batch reads them: *)
(* the handler asks only whether a transaction's coin is on a list       *)
ActiveSets(transactions) ==
    SUBSET {transactions[i].coin : i \in 1..Len(transactions)}

(* one call of handle_manual_transactions with a batch drawn from B *)
ReconcileAny(B) ==
    \E transactions \in B, supplied \in BOOLEAN :
       \E exch \in (IF supplied THEN ActiveSets(transactions) ELSE {{}}),
          bot \in (IF supplied THEN ActiveSets(transactions) ELSE {{}}) :
          Reconcile(transactions, supplied, exch, bot)

SingleBatches == [1..1 -> Transactions]

(* The ledger under jumps, merges, bridge scouting and reconciliation *)
Next ==
    \/ Initialize
    \/ \E pair \in LedgerPairs : Jump(pair)
    \/ ReconcileAny(SingleBatches)

Spec == Init /\ [][Next]_vars

(* The reconciliation of batches of manual transactions *)
NextReconcile ==
    \/ Initialize
    \/ ReconcileAny(Batches)

SpecReconcile == Init /\ [][NextReconcile]_vars

(* The scouting decision under moving prices *)
NextScout ==
    \/ \E c \in Coins, p \in 0..MaxTick : Tick(c, p)
    \/ Initialize
    \/ \E c \in Coins : JumpToBestCoin(c)
    \/ BridgeScout

SpecScout == Init /\ [][NextScout]_vars

(* update_trade_threshold(coin, coin_price) is called with the price of a *)
(* fill, which may be missing or zero, while the exchange reports some    *)
(* from-coins as held above the minimum notional                          *)
HeldPrices == {None, Zero} \cup {RInt(p) : p \in 1..MaxHeldPrice}

UpdateThreshold(coin, coin_price, over) ==
    /\ Live
    /\ Started
    /\ \E m1 \in {update_trade_threshold(Machine, coin, coin_price, over)} :
         Commit(m1, Op("update_trade_threshold", NoCoin, coin, "", Machine, m1)
                    @@ [coin_price |-> coin_price, over |-> over, ratio_before |-> ratio])
    /\ UNCHANGED <<config, price>>

(* The trade thresholds under moving prices *)
NextThreshold ==
    \/ \E c \in Coins, p \in 0..MaxTick : Tick(c, p)
    \/ Initialize
    \/ \E coin \in Coins, coin_price \in HeldPrices :
          \E over \in SUBSET (Coins \ {coin}) : UpdateThreshold(coin, coin_price, over)

SpecThreshold == Init /\ [][NextThreshold]_vars

(* The formulas of the trader, applied to arguments: a call is on record *)
(* with its arguments first and with its result once it has returned     *)
Pending == [pending |-> TRUE]
Raised(e) == [raised |-> e]

(* the prices, ratios and multipliers a pair is scored with *)
(* the held and the candidate price of the worked example *)
ExamplePrices == {100, 105}
(* (scout-margin scores are taken at prices whose products stay within *)
(* the integers of the checker)                                        *)
ScoredPrices(mode) ==
    {RInt(p) : p \in {1, 2} \cup (IF mode = RATIO_CALC_DEFAULT
                                  THEN ExamplePrices ELSE {})}
ScoredRatios == {Rat(k, 100) : k \in {50, 90, 98, 100, 200}}
Multipliers == {1, 5}
ScoreCalls ==
    {[op |-> "_get_ratios", mode |-> mode, multiplier |-> multiplier,
      pair_ratio |-> pair_ratio, coin_price |-> coin_price,
      optional_coin_price |-> optional_coin_price, result |-> Pending] :
        mode \in {RATIO_CALC_DEFAULT, RATIO_CALC_SCOUT_MARGIN},
        multiplier \in Multipliers, pair_ratio \in ScoredRatios,
        coin_price \in ScoredPrices(RATIO_CALC_DEFAULT),
        optional_coin_price \in ScoredPrices(RATIO_CALC_DEFAULT)}

ScoreCallsInRange ==
    {c \in ScoreCalls : {c.coin_price, c.optional_coin_price} \subseteq ScoredPrices(c.mode)}

(* the weights and values averaged: amounts, some of them negative, and *)
(* prices or percentages                                                *)
Weights == {RInt(w) : w \in (-MaxWeight)..MaxWeight}
Values == {RInt(v) : v \in {0, 10, 20}} \cup {Rat(1, 2)}
AverageCalls ==
    {[op |-> "calculate_weighted_average", weight_a |-> weight_a,
      weight_b |-> weight_b, value_a |-> value_a, value_b |-> value_b,
      result |-> Pending] :
        weight_a \in Weights, weight_b \in Weights,
        value_a \in Values, value_b \in Values}

InitFormulas ==
    /\ paths = <<>>
    /\ current = [p \in {NoPath} |-> NoCoin]
    /\ coin_pnl = <<>>
    /\ usd_pnl = <<>>
    /\ ratio = [pr \in Pairs |-> None]
    /\ failed_buy_order = FALSE
    /\ failed_buy_path = NoPath
    /\ price = [c \in Coins |-> 1]
    /\ calls = 0
    /\ lastOp \in ScoreCallsInRange \cup AverageCalls
    /\ config = IF lastOp.op = "_get_ratios"
                THEN [RATIO_CALC |-> lastOp.mode, SCOUT_MULTIPLIER |-> lastOp.multiplier]
                ELSE [RATIO_CALC |-> RATIO_CALC_DEFAULT, SCOUT_MULTIPLIER |-> 5]

(* _get_ratios scores the pair *)
Scored ==
    /\ lastOp.op = "_get_ratios"
    /\ lastOp.result = Pending
    /\ lastOp' = [lastOp EXCEPT !.result =
                      Score(config.RATIO_CALC, config.SCOUT_MULTIPLIER, lastOp.pair_ratio,
                            lastOp.coin_price, lastOp.optional_coin_price)]
    /\ UNCHANGED <<paths, current, coin_pnl, usd_pnl, ratio, failed_buy_order,
                   failed_buy_path, config, price, calls>>

(* calculate_weighted_average returns, or its division raises *)
Averaged ==
    /\ lastOp.op = "calculate_weighted_average"
    /\ lastOp.result = Pending
    /\ lastOp' = [lastOp EXCEPT !.result =
                      IF RIsZero(RAdd(lastOp.weight_a, lastOp.weight_b))
                      THEN Raised("ZeroDivisionError")
                      ELSE calculate_weighted_average(lastOp.weight_a, lastOp.weight_b,
                                                      lastOp.value_a, lastOp.value_b)]
    /\ UNCHANGED <<paths, current, coin_pnl, usd_pnl, ratio, failed_buy_order,
                   failed_buy_path, config, price, calls>>

NextFormulas ==
    \/ Scored
    \/ Averaged

SpecFormulas == InitFormulas /\ [][NextFormulas]_vars

----------------------------------------------------------------------------
(* Paths with a history.  The ledger is append-only, so a path that has   *)
(* visited a coin twice lies many calls deep: the specification starts    *)
(* from the ledgers that scripted runs of the handlers leave, and makes   *)
(* one more call                                                          *)

(* transaction_through_bridge when the sell and the buy are filled with   *)
(* quantity q and no bridge balance was there before the jump             *)
transaction_filled(m, pair, q) ==
    LET result == [price |-> price[pair[2]], cumulative_filled_quantity |-> q,
                   cumulative_quote_qty |-> q * price[pair[2]]]
    IN  Bind(BeforeBuy(m, pair, FALSE, 0), LAMBDA m1 :
            AfterBuy(m1, pair, m1.ret, result, q, {}))

(* handle_manual_transactions with one deposit or withdrawal of a coin  *)
(* that is on both lists                                                *)
manual_adjusted(m, coin, q, deposit) ==
    handle_manual_transactions(
        m, <<[coin |-> coin, coin_amount |-> q, bridge_price |-> 1, deposit |-> deposit]>>,
        TRUE, {coin}, {coin}, 0)

(* a route: the jumps (from # to) and withdrawals (from = to) of a run *)
RouteRevisit ==
    <<<<"A", "C">>, <<"C", "A">>, <<"A", "C">>, <<"C", "A">>, <<"B", "C">>, <<"C", "B">>>>
RouteOverdrawn ==
    <<<<"A", "C">>, <<"C", "A">>, <<"A", "C">>, <<"C", "A">>, <<"B", "C">>, <<"C", "B">>,
      <<"B", "B">>>>
RouteCrossed ==
    <<<<"B", "A">>, <<"A", "C">>, <<"B", "A">>, <<"A", "B">>, <<"C", "A">>>>
RouteEmptied ==
    <<<<"B", "A">>, <<"A", "A">>, <<"A", "C">>>>
Routes == {RouteRevisit, RouteOverdrawn, RouteCrossed, RouteEmptied}

(* a script: a route with the quantity filled or withdrawn at each step *)
Scripts ==
    UNION {{[i \in 1..Len(r) |-> [from |-> r[i][1], to |-> r[i][2], qty |-> f[i]]] :
               f \in [1..Len(r) -> Qty]} : r \in Routes}

(* the ledger a call leaves for the next call, whether or not it raised *)
Settled(m) == [m EXCEPT !.exc = "", !.ret = NoPath, !.tag = "", !.log = <<>>]

(* the ledgers a script leaves, step by step *)
RECURSIVE Replay(_, _, _)
Replay(ms, script, i) ==
    IF i > Len(script) THEN ms
    ELSE Replay({Settled(IF script[i].from = script[i].to
                         THEN manual_adjusted(m, script[i].from, script[i].qty, FALSE)
                         ELSE transaction_filled(m, <<script[i].from, script[i].to>>,
                                                 script[i].qty)) :
                    m \in ms},
                script, i + 1)

(* the trader after initialize(), nothing recorded yet *)
Fresh ==
    initialize_trade_thresholds(
        [paths |-> <<>>, current |-> [p \in {NoPath} |-> NoCoin], coin_pnl |-> <<>>,
         usd_pnl |-> <<>>, ratio |-> [pr \in Pairs |-> None],
         failed_buy_order |-> FALSE, failed_buy_path |-> NoPath,
         exc |-> "", ret |-> NoPath, tag |-> "", log |-> <<>>])

InitHistory ==
    /\ config = [RATIO_CALC |-> RATIO_CALC_DEFAULT, SCOUT_MULTIPLIER |-> 5]
    /\ price = [c \in Coins |-> 1]
    /\ lastOp = NoOp
    /\ calls = MaxCalls - 1
    /\ \E script \in Scripts :
         \E m \in Replay({Fresh}, script, 1) :
            /\ paths = m.paths
            /\ current = m.current
            /\ coin_pnl = m.coin_pnl
            /\ usd_pnl = m.usd_pnl
            /\ ratio = m.ratio
            /\ failed_buy_order = m.failed_buy_order
            /\ failed_buy_path = m.failed_buy_path

(* one more jump, its orders filled *)
JumpFilled(pair, q) ==
    /\ Live
    /\ \E m1 \in {BeforeBuy(Machine, pair, FALSE, 0)} :
         \E m2 \in {transaction_filled(Machine, pair, q)} :
            Assigned(m2, Op("jump", pair[1], pair[2], m2.tag, m1, m2) @@ [filled |-> q])
    /\ calls' = calls + 1
    /\ UNCHANGED <<config, price>>

(* one more deposit or withdrawal on a coin of both lists *)
ManualAdjusted(coin, q, deposit) ==
    /\ Live
    /\ \E m1 \in {manual_adjusted(Machine, coin, q, deposit)} :
         \E lo \in {[Op("reconcile", NoCoin, NoCoin, "", Machine, m1) EXCEPT
                        !.supplied = TRUE,
                        !.transactions = <<[coin |-> coin, coin_amount |-> q,
                                            bridge_price |-> 1, deposit |-> deposit]>>,
                        !.exchange_active_coins = {coin},
                        !.bot_active_coins = {coin},
                        !.path = NoPath]} :
            Assigned(m1, lo)
    /\ calls' = calls + 1
    /\ UNCHANGED <<config, price>>

NextHistory ==
    \/ \E pair \in Pairs, q \in Qty : JumpFilled(pair, q)
    \/ \E coin \in Coins, q \in Qty, deposit \in BOOLEAN : ManualAdjusted(coin, q, deposit)

SpecHistory == InitHistory /\ [][NextHistory]_vars

----------------------------------------------------------------------------
(* Retired paths.  The ledgers two paths and their merge leave, and two   *)
(* more calls: jumps, adjustments and full withdrawals                    *)

(* handle_manual_transactions with one withdrawal of a coin that the bot *)
(* has active and the exchange no longer holds                           *)
manual_removed(m, coin, q) ==
    handle_manual_transactions(
        m, <<[coin |-> coin, coin_amount |-> q, bridge_price |-> 1, deposit |-> FALSE]>>,
        TRUE, {}, {coin}, 0)

(* two paths apart, and the two paths merged into a third *)
RouteApart == <<<<"B", "A">>, <<"B", "C">>>>
RouteMerged == <<<<"B", "A">>, <<"B", "C">>, <<"C", "A">>>>
RetiredScripts ==
    UNION {{[i \in 1..Len(r) |-> [from |-> r[i][1], to |-> r[i][2], qty |-> f[i]]] :
               f \in [1..Len(r) -> Qty]} : r \in {RouteApart, RouteMerged}}

InitRetired ==
    /\ config = [RATIO_CALC |-> RATIO_CALC_DEFAULT, SCOUT_MULTIPLIER |-> 5]
    /\ price = [c \in Coins |-> 1]
    /\ lastOp = NoOp
    /\ calls = MaxCalls - 2
    /\ \E script \in RetiredScripts :
         \E m \in Replay({Fresh}, script, 1) :
            /\ paths = m.paths
            /\ current = m.current
            /\ coin_pnl = m.coin_pnl
            /\ usd_pnl = m.usd_pnl
            /\ ratio = m.ratio
            /\ failed_buy_order = m.failed_buy_order
            /\ failed_buy_path = m.failed_buy_path

(* one full withdrawal of a coin the bot has active *)
ManualRemoved(coin, q) ==
    /\ Live
    /\ \E m1 \in {manual_removed(Machine, coin, q)} :
         \E lo \in {[Op("reconcile", NoCoin, NoCoin, "", Machine, m1) EXCEPT
                        !.supplied = TRUE,
                        !.transactions = <<[coin |-> coin, coin_amount |-> q,
                                            bridge_price |-> 1, deposit |-> FALSE]>>,
                        !.exchange_active_coins = {},
                        !.bot_active_coins = {coin},
                        !.path = NoPath]} :
            Assigned(m1, lo)
    /\ calls' = calls + 1
    /\ UNCHANGED <<config, price>>

NextRetired ==
    \/ \E pair \in Pairs, q \in Qty : JumpFilled(pair, q)
    \/ \E coin \in Coins, q \in Qty, deposit \in BOOLEAN : ManualAdjusted(coin, q, deposit)
    \/ \E coin \in Coins, q \in Qty : ManualRemoved(coin, q)

SpecRetired == InitRetired /\ [][NextRetired]_vars

----------------------------------------------------------------------------
(* Positions.  update_coin_pnl alone, called again and again on one path *)

(* a new database with one path, as get_coin_path leaves it *)
InitPosition ==
    /\ config = [RATIO_CALC |-> RATIO_CALC_DEFAULT, SCOUT_MULTIPLIER |-> 5]
    /\ price = [c \in Coins |-> 1]
    /\ lastOp = NoOp
    /\ calls = 0
    /\ \E m \in {set_new_coin_path(Fresh)} :
          /\ paths = m.paths
          /\ current = m.current
          /\ coin_pnl = m.coin_pnl
          /\ usd_pnl = m.usd_pnl
          /\ ratio = m.ratio
          /\ failed_buy_order = m.failed_buy_order
          /\ failed_buy_path = m.failed_buy_path

UpdateCoinPnl(coin, q) ==
    /\ Len(coin_pnl) < MaxPositions
    /\ \E m1 \in {update_coin_pnl(Machine, coin, 1, QtyVal(q), PriceVal(price[coin]))} :
          coin_pnl' = m1.coin_pnl
    /\ UNCHANGED <<paths, current, usd_pnl, ratio, failed_buy_order, failed_buy_path,
                   config, price, lastOp, calls>>

NextPosition == \E coin \in Coins, q \in Qty : UpdateCoinPnl(coin, q)

SpecPosition == InitPosition /\ [][NextPosition]_vars

----------------------------------------------------------------------------
(* Properties *)

IsPrefix(s, t) == Len(s) <= Len(t) /\ \A i \in 1..Len(s) : t[i] = s[i]
ActiveHolders(c) == {p \in 1..Len(paths) : paths[p] /\ current[p] = c}
SameGains(r, prev) ==
    /\ r.coin_gain = prev.coin_gain
    /\ r.percent_gain = prev.percent_gain
    /\ r.total_coin_gain = prev.total_coin_gain
    /\ r.total_percent_gain = prev.total_percent_gain
(* the rows a step appends to the CoinPnl table *)
NewCoinRows == (Len(coin_pnl) + 1)..Len(coin_pnl')

(* C1: in every reachable state each coin is the currently held coin of *)
(* at most one active path                                              *)
HeldByAtMostOnePath == \A c \in Coins : Cardinality(ActiveHolders(c)) <= 1

(* a merge was attempted by the jump on record: the database it found and *)
(* the database merge_paths left                                          *)
MergeAttempted == lastOp.op = "jump" /\ lastOp.kind = "merge"
MergeEntry == lastOp.entry
MergeLeft == lastOp.log[1].db
MergeSource == get_coin_path(MergeEntry, lastOp.coin)
MergeDestination == get_coin_path(MergeEntry, lastOp.to)
MergeNothing == MergeLeft = MergeEntry
MergeComplete ==
    LET new == Len(MergeEntry.paths) + 1
        rows == (MergeEntry.coin_rows + 1)..MergeLeft.coin_rows
        merged == {c \in Coins : \E i \in 1..MergeEntry.coin_rows :
                      /\ coin_pnl[i].coin = c
                      /\ coin_pnl[i].path \in {MergeSource, MergeDestination}}
    IN  /\ MergeSource # NoPath
        /\ MergeDestination # NoPath
        /\ Len(MergeLeft.paths) = new
        /\ MergeLeft.paths[new]
        /\ ~MergeLeft.paths[MergeSource]
        /\ ~MergeLeft.paths[MergeDestination]
        /\ \A c \in merged :
              Cardinality({i \in rows : coin_pnl[i].coin = c /\ coin_pnl[i].path = new}) = 1
        /\ \E i \in (MergeEntry.usd_rows + 1)..MergeLeft.usd_rows : usd_pnl[i].path = new

(* C2: a merge is atomic: after a merge_paths attempt either both old   *)
(* paths are inactive and the new path holds one merged CoinPnl row for *)
(* every coin with history on either old path plus a UsdPnl row, or     *)
(* nothing changed at all                                               *)
MergeAtomic == MergeAttempted => MergeComplete \/ MergeNothing

(* C3: when merge_paths cannot resolve the source or the destination to *)
(* a path it mutates nothing (no path allocated or deactivated, no row  *)
(* appended) and the jump is skipped: no current-coin assignment changes *)
MergeAbortsWithoutMutation ==
    (MergeAttempted /\ (MergeSource = NoPath \/ MergeDestination = NoPath)) =>
        /\ MergeLeft.paths = MergeEntry.paths
        /\ MergeLeft.coin_rows = MergeEntry.coin_rows
        /\ MergeLeft.usd_rows = MergeEntry.usd_rows
        /\ paths = MergeEntry.paths
        /\ current = MergeEntry.current

(* C4: the ledger is append-only: every step leaves every CoinPnl and   *)
(* UsdPnl row in place with its fields unchanged, and only adds rows    *)
AppendOnly == [][IsPrefix(coin_pnl, coin_pnl') /\ IsPrefix(usd_pnl, usd_pnl')]_vars

(* a completed merge appended the merged rows behind those of both paths *)
MergeAppended ==
    /\ MergeAttempted
    /\ lastOp.exc = ""
    /\ lastOp.path # NoPath
    /\ MergeEntry.coin_rows >= 2
    /\ Len(coin_pnl) > MergeEntry.coin_rows
    /\ Len(usd_pnl) > MergeEntry.usd_rows

(* the scores _jump_to_best_coin sees when it scouts from coin c *)
ScoutItems(c) == get_ratios(config, ratio, c, PriceVal(price[c]), {}).items
NonePositive(items) == \A k \in 1..Len(items) : ~RLess(Zero, items[k].score)
BestPositive(items, pair) ==
    \E k \in 1..Len(items) :
        /\ items[k].pair = pair
        /\ RLess(Zero, items[k].score)
        /\ \A j \in 1..Len(items) : RLeq(items[j].score, items[k].score)

(* C5: a jump goes to a pair whose score is positive and at least that  *)
(* of every other scored pair; when no pair scores above zero no order  *)
(* is placed and the ledger stays as it is                              *)
JumpSelection ==
    [][/\ lastOp'.op = "jump" =>
             BestPositive(ScoutItems(lastOp'.coin), <<lastOp'.coin, lastOp'.to>>)
       /\ (lastOp'.op \in {"jump", "scout"} /\ NonePositive(ScoutItems(lastOp'.coin))) =>
             /\ lastOp'.op = "scout"
             /\ UNCHANGED <<paths, current, coin_pnl, usd_pnl, ratio,
                            failed_buy_order, failed_buy_path>>]_vars

(* a jump was chosen among two viable pairs of different score; its buy *)
(* was rejected, so the ratios are still those it was chosen by         *)
JumpChoseBetweenTwo ==
    /\ lastOp.op = "jump"
    /\ lastOp.kind = "buy_failed"
    /\ \E j, k \in 1..Len(ScoutItems(lastOp.coin)) :
          /\ RLess(Zero, ScoutItems(lastOp.coin)[j].score)
          /\ RLess(ScoutItems(lastOp.coin)[j].score, ScoutItems(lastOp.coin)[k].score)

(* a jump whose buy order was rejected, and the path of the coin it left *)
BuyRejectedStep == lastOp'.op = "jump" /\ lastOp'.kind = "buy_failed"
LeftPath ==
    IF get_coin_path(Machine, lastOp'.coin) # NoPath
    THEN get_coin_path(Machine, lastOp'.coin)
    ELSE Len(paths) + 1
FlagsSet == failed_buy_order' /\ failed_buy_path' = LeftPath
CurrentKept ==
    /\ \A p \in DOMAIN current : current'[p] = current[p]
    /\ \A p \in (DOMAIN current') \ (DOMAIN current) : current'[p] = NoCoin
NoDestinationRow == \A i \in NewCoinRows : coin_pnl'[i].coin # lastOp'.to
(* every row appended adjusts a coin of the path left for a bridge deposit *)
OnlyDepositAdjustments ==
    \A i \in NewCoinRows :
        LET prev == get_last_coin_pnl(Machine, coin_pnl'[i].coin, coin_pnl'[i].path)
        IN  /\ coin_pnl'[i].path = LeftPath
            /\ prev # None
            /\ SameGains(coin_pnl'[i], prev)
SuccessResets ==
    (lastOp'.op = "jump" /\ lastOp'.kind \in {"jump", "merge"} /\ lastOp'.exc = "") =>
        ~failed_buy_order' /\ failed_buy_path' = NoPath

(* C6: a jump whose buy order is rejected sets failed_buy_order and keeps *)
(* the path of the coin being left in failed_buy_path, records no CoinPnl *)
(* row for the destination coin, leaves the current-coin assignment and   *)
(* every ratio unchanged; a successful jump resets both fields            *)
BuyRejectedRecordsNothing ==
    [][/\ BuyRejectedStep => FlagsSet /\ NoDestinationRow /\ CurrentKept /\ ratio' = ratio
       /\ SuccessResets]_vars

(* C6, as the code has it: the rows a rejected jump appends are the      *)
(* bridge-deposit adjustments of the coins with history on the path left, *)
(* the destination coin among them if it has history there; they carry   *)
(* the gain fields of the rows before them                               *)
BuyRejectedKeepsPath ==
    [][/\ BuyRejectedStep => FlagsSet /\ OnlyDepositAdjustments /\ CurrentKept
                                /\ ratio' = ratio
       /\ SuccessResets]_vars

(* a buy was rejected on a path where the destination coin has history *)
BuyRejectedOnSharedPath ==
    /\ lastOp.op = "jump"
    /\ lastOp.kind = "buy_failed"
    /\ failed_buy_order
    /\ failed_buy_path # NoPath
    /\ \E i \in 1..Len(coin_pnl) :
          coin_pnl[i].coin = lastOp.to /\ coin_pnl[i].path = failed_buy_path

(* a reconciliation of the one transaction tx with both lists passed *)
ReconcileOne(tx) ==
    /\ lastOp'.op = "reconcile"
    /\ lastOp'.supplied
    /\ lastOp'.transactions = <<tx>>
OneNewPathOneZeroRow(tx) ==
    /\ Len(paths') = Len(paths) + 1
    /\ Len(coin_pnl') = Len(coin_pnl) + 1
    /\ LET r == coin_pnl'[Len(coin_pnl')]
       IN  /\ r.coin = tx.coin
           /\ r.path = Len(paths')
           /\ r.coin_gain = 0
           /\ r.percent_gain = 0
           /\ r.total_coin_gain = 0
           /\ r.total_percent_gain = 0

(* C7: reconciling a deposit for a coin in neither active set creates   *)
(* exactly one new path and exactly one CoinPnl row, its gain fields zero *)
DepositInNeitherSetOpensPath ==
    [][\A tx \in Transactions :
          (/\ ReconcileOne(tx)
           /\ tx.deposit
           /\ tx.coin \notin lastOp'.exchange_active_coins
           /\ tx.coin \notin lastOp'.bot_active_coins) => OneNewPathOneZeroRow(tx)]_vars

(* C7, as the code has it: the deposit opens a path when the coin is    *)
(* active on the exchange and not on the bot, and the database returns  *)
(* the new path                                                         *)
DepositOfNewCoinOpensPath ==
    [][\A tx \in Transactions :
          (/\ ReconcileOne(tx)
           /\ tx.deposit
           /\ tx.coin \in lastOp'.exchange_active_coins
           /\ tx.coin \notin lastOp'.bot_active_coins
           /\ lastOp'.log[1].tag # "alloc_failed") => OneNewPathOneZeroRow(tx)]_vars

(* a deposit opened a path beside one that was there *)
DepositOpenedSecondPath ==
    /\ lastOp.op = "reconcile"
    /\ Len(lastOp.transactions) = 1
    /\ lastOp.log[1].tag = "new"
    /\ Len(lastOp.entry.paths) >= 1
    /\ Len(paths) = Len(lastOp.entry.paths) + 1

(* C8: reconciling a withdrawal of a coin that is bot-active and no     *)
(* longer exchange-active deactivates the path of that coin and no      *)
(* other, creates no path and appends no CoinPnl or UsdPnl row          *)
FullWithdrawalRetiresPath ==
    [][\A tx \in Transactions :
          (/\ ReconcileOne(tx)
           /\ ~tx.deposit
           /\ tx.coin \in lastOp'.bot_active_coins
           /\ tx.coin \notin lastOp'.exchange_active_coins) =>
              /\ paths' = IF get_coin_path(Machine, tx.coin) = NoPath THEN paths
                          ELSE [paths EXCEPT ![get_coin_path(Machine, tx.coin)] = FALSE]
              /\ coin_pnl' = coin_pnl
              /\ usd_pnl' = usd_pnl]_vars

(* a full withdrawal retired one of two active paths *)
WithdrawalRetiredOneOfTwo ==
    /\ lastOp.op = "reconcile"
    /\ Len(lastOp.transactions) = 1
    /\ lastOp.log[1].tag = "removed"
    /\ ~paths[lastOp.log[1].path]
    /\ \E p \in 1..Len(paths) : paths[p] /\ current[p] # NoCoin

AdjustedRow(tx, prev) ==
    \E i \in NewCoinRows :
        /\ coin_pnl'[i].coin = tx.coin
        /\ coin_pnl'[i].path = prev.path
        /\ coin_pnl'[i].coin_amount =
              prev.coin_amount + (IF tx.deposit THEN tx.coin_amount ELSE -tx.coin_amount)
        /\ SameGains(coin_pnl'[i], prev)

(* C9: reconciling a partial withdrawal of q, or a deposit of q, for a  *)
(* coin in both active sets appends a CoinPnl row for the coin on its   *)
(* path with the previous amount minus (plus) q and the gain fields of  *)
(* the previous row; the path stays active and no path is created       *)
AdjustmentMovesAmountOnly ==
    [][\A tx \in Transactions :
          LET p == get_coin_path(Machine, tx.coin)
              prev == get_last_coin_pnl(Machine, tx.coin, p)
          IN  (/\ ReconcileOne(tx)
               /\ tx.coin \in lastOp'.exchange_active_coins
               /\ tx.coin \in lastOp'.bot_active_coins
               /\ p # NoPath
               /\ prev # None
               /\ (tx.deposit \/ tx.coin_amount < prev.coin_amount)) =>
                  /\ AdjustedRow(tx, prev)
                  /\ paths' = paths]_vars

(* C10: a reconciliation called without the two lists creates and       *)
(* deactivates no path, changes no current-coin assignment and appends  *)
(* no CoinPnl or UsdPnl row, whatever the batch                         *)
UnsuppliedListsDisable ==
    [][(lastOp'.op = "reconcile" /\ ~lastOp'.supplied) =>
          UNCHANGED <<paths, current, coin_pnl, usd_pnl>>]_vars

(* a batch of two was passed without the lists while its coin was held *)
UnsuppliedBatchOnHeldCoin ==
    /\ lastOp.op = "reconcile"
    /\ ~lastOp.supplied
    /\ Len(lastOp.transactions) = 2
    /\ lastOp.transactions[1].coin \in ActiveCoinSet(Machine)

(* the ledger the merge on record found, the latest rows of a coin on the *)
(* two paths it merged and the rows it wrote for the coin on the new path *)
BeforeMerge == [coin_pnl |-> SubSeq(coin_pnl, 1, MergeEntry.coin_rows)]
SourceRow(c) == get_last_coin_pnl(BeforeMerge, c, MergeSource)
DestinationRow(c) == get_last_coin_pnl(BeforeMerge, c, MergeDestination)
OnBoth(c) == SourceRow(c) # None /\ DestinationRow(c) # None
MergedRows(c) ==
    {i \in (MergeEntry.coin_rows + 1)..MergeLeft.coin_rows :
        coin_pnl[i].coin = c /\ coin_pnl[i].path = Len(MergeEntry.paths) + 1}
Conserved(c, i) ==
    /\ coin_pnl[i].coin_amount = SourceRow(c).coin_amount + DestinationRow(c).coin_amount
    /\ coin_pnl[i].coin_gain = SourceRow(c).coin_gain + DestinationRow(c).coin_gain
    /\ coin_pnl[i].total_coin_gain =
          SourceRow(c).total_coin_gain + DestinationRow(c).total_coin_gain

MergedPercent(c, i) ==
    LET a == SourceRow(c)
        b == DestinationRow(c)
        Between(x, y, z) == (y <= x /\ x <= z) \/ (z <= x /\ x <= y)
    IN  /\ coin_pnl[i].percent_gain =
              Round(calculate_weighted_average(Amt(a), Amt(b), Pct(a), Pct(b)),
                    PercentDigits)
        /\ coin_pnl[i].total_percent_gain =
              Round(calculate_weighted_average(Amt(a), Amt(b), TPct(a), TPct(b)),
                    PercentDigits)
        /\ Between(coin_pnl[i].percent_gain, a.percent_gain, b.percent_gain)
        /\ Between(coin_pnl[i].total_percent_gain, a.total_percent_gain,
                   b.total_percent_gain)

(* C12: for a coin with history on both merging paths (the destination   *)
(* coin apart) the merged percent_gain and total_percent_gain are the    *)
(* amount-weighted averages of the two inputs and lie between them       *)
MergedPercentBounded ==
    MergeAttempted =>
        \A c \in Coins \ {lastOp.to} :
            OnBoth(c) => \A i \in MergedRows(c) : MergedPercent(c, i)

(* the jump on record took the plain branch: update_coin_pnl recorded the *)
(* destination coin on the path, and the row of the coin before it        *)
PositionRecorded ==
    /\ lastOp.op = "jump"
    /\ lastOp.kind = "jump"
    /\ lastOp.log[1].db.coin_rows = lastOp.entry.coin_rows + 1
PositionRow == coin_pnl[lastOp.log[1].db.coin_rows]
PreviousPosition ==
    get_last_coin_pnl([coin_pnl |-> SubSeq(coin_pnl, 1, lastOp.entry.coin_rows)],
                      lastOp.to, PositionRow.path)
PositionGains ==
    LET r == PositionRow
        prev == PreviousPosition
        coin_gain == RSub(Amt(r), Amt(prev))
        percent_gain == RMul(RDiv(coin_gain, Amt(prev)), Hundred)
    IN  IF prev = None
        THEN /\ r.coin_gain = 0
             /\ r.percent_gain = 0
             /\ r.total_coin_gain = 0
             /\ r.total_percent_gain = 0
        ELSE /\ r.coin_gain = Round(coin_gain, get_base_asset_precision)
             /\ r.percent_gain = Round(percent_gain, PercentDigits)
             /\ r.total_coin_gain =
                   Round(RAdd(TGain(prev), coin_gain), get_base_asset_precision)
             /\ r.total_percent_gain =
                   Round(RAdd(TPct(prev), percent_gain), PercentDigits)

(* C13: the row update_coin_pnl appends for (path, coin) has all four   *)
(* gain fields zero when the pair has no row yet; otherwise coin_gain = *)
(* quantity - previous.coin_amount, percent_gain = coin_gain /          *)
(* previous.coin_amount * 100 and each total is the previous total plus *)
(* the new gain                                                         *)
PositionGainsRecorded ==
    PositionRecorded => (PositionRow.coin = lastOp.to /\ PositionGains)

(* a position was recorded on a path that had seen the coin with another *)
(* amount and carried totals from before                                 *)
PositionRecordedAgain ==
    /\ PositionRecorded
    /\ PreviousPosition # None
    /\ PreviousPosition.total_coin_gain # 0
    /\ PositionRow.coin_gain # 0
    /\ PositionRow.total_coin_gain # PositionRow.coin_gain

(* the UsdPnl rows the call on record appended by update_usd_pnl: those *)
(* of a plain jump or of a reconciliation                               *)
UsdRecorded ==
    \/ lastOp.op = "jump" /\ lastOp.kind = "jump"
    \/ lastOp.op = "reconcile"
NewUsdRows == (lastOp.entry.usd_rows + 1)..Len(usd_pnl)
PreviousUsd(i) == get_last_usd_pnl([usd_pnl |-> SubSeq(usd_pnl, 1, i - 1)], usd_pnl[i].path)
(* the external adjustment passed with the row: the signed bridge value *)
(* of the transaction reconciled on an active coin, otherwise none      *)
ExternalAdjustment ==
    IF lastOp.op = "reconcile" /\ lastOp.log # <<>> /\ lastOp.log[1].tag = "adjust"
    THEN LET tx == lastOp.transactions[1]
         IN  RMul(IF tx.deposit THEN QtyVal(tx.coin_amount)
                  ELSE RSub(Zero, QtyVal(tx.coin_amount)),
                  PriceVal(tx.bridge_price))
    ELSE Zero
UsdGains(i) ==
    LET r == usd_pnl[i]
        prev == PreviousUsd(i)
        base == RAdd(Usd(prev.value), ExternalAdjustment)
        gain == Round(RSub(Usd(r.value), base), UsdDigits)
        percent_gain == Round(RMul(RDiv(Usd(gain), base), Hundred), PercentDigits)
    IN  IF prev = None
        THEN r.gain = 0 /\ r.percent_gain = 0 /\ r.total_gain = 0
                        /\ r.total_percent_gain = 0
        ELSE /\ r.gain = gain
             /\ r.percent_gain = percent_gain
             /\ r.total_gain = prev.total_gain + gain
             /\ r.total_percent_gain = prev.total_percent_gain + percent_gain
             /\ (Usd(r.value) = base => r.gain = 0)

PreviousOnPath ==
    get_last_coin_pnl([coin_pnl |-> SubSeq(coin_pnl, 1, lastOp.entry.coin_rows)],
                      lastOp.to, lastOp.path)

(* C15: no jump records a position on a path whose latest CoinPnl of the *)
(* coin has coin_amount 0: no percent gain is computed against a zero   *)
(* previous amount                                                      *)
PreviousAmountNonzero ==
    (lastOp.op = "jump" /\ lastOp.kind = "jump" /\ PreviousOnPath # None)
        => PreviousOnPath.coin_amount # 0

(* the call on record is update_trade_threshold *)
ThresholdCall == lastOp.op = "update_trade_threshold"
(* the pairs whose ratio the call recomputes *)
Recomputed(pr) ==
    /\ lastOp.coin_price # None
    /\ ~RIsZero(lastOp.coin_price)
    /\ pr[2] = lastOp.to
    /\ price[pr[1]] # 0
    /\ pr[1] \notin lastOp.over

(* C16: update_trade_threshold(heldCoin, heldPrice) sets ratio =           *)
(* sell_price(from_coin) / heldPrice for every pair into the held coin     *)
(* whose from-coin has a sell price and is not held above the minimum      *)
(* notional; it leaves every other pair unchanged, and every pair when     *)
(* heldPrice is null or zero                                               *)
ThresholdRecomputed ==
    ThresholdCall =>
        \A pr \in Pairs :
            ratio[pr] = IF Recomputed(pr)
                        THEN RDiv(PriceVal(price[pr[1]]), lastOp.coin_price)
                        ELSE lastOp.ratio_before[pr]

(* a call moved the ratio of one pair into the held coin and skipped the *)
(* pair whose from-coin is held above the minimum notional, although its *)
(* ratio is not the one the prices give                                  *)
ThresholdMovedOneSkippedOne ==
    /\ ThresholdCall
    /\ \E pr \in Pairs : Recomputed(pr) /\ ratio[pr] # lastOp.ratio_before[pr]
    /\ \E pr \in Pairs :
          /\ pr[2] = lastOp.to
          /\ pr[1] \in lastOp.over
          /\ price[pr[1]] # 0
          /\ ratio[pr] # RDiv(PriceVal(price[pr[1]]), lastOp.coin_price)

(* the call on record is bridge_scout *)
BridgeScoutCall == lastOp.op = "bridge_scout"
(* none of the coin's scores is positive *)
Sink(coin) ==
    LET g == get_ratios(config, ratio, coin, PriceVal(price[coin]), {})
    IN  /\ price[coin] # 0
        /\ g.raised = ""
        /\ \A k \in 1..Len(g.items) : ~RLess(Zero, g.items[k].score)
(* a sink coin whose minimum notional the bridge balance exceeds *)
Fundable(coin) == Sink(coin) /\ lastOp.bridge_balance > get_min_notional(coin)
(* the call left the database and the trader as it found them *)
BridgeScoutIdle ==
    /\ Snapshot(Machine) = lastOp.entry
    /\ ratio = lastOp.ratio_before
    /\ <<failed_buy_order, failed_buy_path>> = lastOp.failed_before

(* C17: bridge_scout buys a coin only if none of the coin's scores is     *)
(* positive and the bridge balance exceeds the coin's minimum notional; it *)
(* buys at most one coin per call; when there is no such coin it places no *)
(* order, changes no state and returns None                                *)
BridgeScoutBuysSink ==
    BridgeScoutCall =>
        /\ lastOp.to # "" =>
              /\ Fundable(lastOp.to)
              /\ current = [lastOp.entry.current EXCEPT ![NoPath] = lastOp.to]
              /\ ~failed_buy_order
        /\ lastOp.to = "" => current = lastOp.entry.current
        /\ (\A coin \in Coins : ~Fundable(coin)) => (lastOp.to = "" /\ BridgeScoutIdle)
        /\ ~BridgeScoutIdle => \E coin \in Coins : Fundable(coin)

(* two sink coins could be bought, only the first of them filled was, and *)
(* another coin was no sink                                               *)
BridgeScoutBoughtOneOfTwo ==
    /\ BridgeScoutCall
    /\ lastOp.to # ""
    /\ \E coin \in Coins \ {lastOp.to} : Fundable(coin)
    /\ \E coin \in Coins : price[coin] # 0 /\ ~Sink(coin)
    /\ current[NoPath] = lastOp.to

(* a pair has been scored *)
ScoreReturned(mode) ==
    /\ lastOp.op = "_get_ratios"
    /\ lastOp.result # Pending
    /\ lastOp.mode = mode
CoinOptRatio == RDiv(lastOp.coin_price, lastOp.optional_coin_price)
(* the example of the default mode: held 100, candidate 105, multiplier 5 *)
ScoreExample ==
    /\ lastOp.coin_price = RInt(100)
    /\ lastOp.optional_coin_price = RInt(105)
    /\ lastOp.multiplier = 5

(* C18: in default mode the score of a pair is coin_opt_ratio * (1 -      *)
(* (feeFrom + feeTo) * multiplier) - pair.ratio with coin_opt_ratio =     *)
(* heldPrice / candidatePrice; held 100, candidate 105, fees 0.001 and    *)
(* multiplier 5 give a negative score for ratio 0.98 and a positive score *)
(* for ratio 0.90                                                         *)
DefaultScore ==
    ScoreReturned(RATIO_CALC_DEFAULT) =>
        /\ get_fee = Rat(1, 1000)
        /\ lastOp.result =
               (RSub(RMul(CoinOptRatio,
                         RSub(RInt(1), RMul(RAdd(get_fee, get_fee),
                                            RInt(lastOp.multiplier)))),
                     lastOp.pair_ratio))
        /\ (ScoreExample /\ lastOp.pair_ratio = Rat(98, 100)) => RLess(lastOp.result, Zero)
        /\ (ScoreExample /\ lastOp.pair_ratio = Rat(90, 100)) => RLess(Zero, lastOp.result)

(* the example was scored with ratio 0.90, and the score is positive *)
DefaultScoreExamplePositive ==
    /\ ScoreReturned(RATIO_CALC_DEFAULT)
    /\ ScoreExample
    /\ lastOp.pair_ratio = Rat(90, 100)
    /\ RLess(Zero, lastOp.result)

(* C19: in scout-margin mode the score of a pair is (1 - fee) *          *)
(* coin_opt_ratio / pair.ratio - (1 + multiplier / 100) with fee =       *)
(* feeFrom + feeTo - feeFrom * feeTo                                     *)
ScoutMarginScore ==
    ScoreReturned(RATIO_CALC_SCOUT_MARGIN) =>
        LET fee == RSub(RAdd(get_fee, get_fee), RMul(get_fee, get_fee))
        IN  lastOp.result =
                RSub(RDiv(RMul(RSub(RInt(1), fee), CoinOptRatio), lastOp.pair_ratio),
                     RAdd(RInt(1), Rat(lastOp.multiplier, 100)))

(* a pair was scored in scout-margin mode above zero, with a ratio and a *)
(* price ratio that differ from one                                      *)
ScoutMarginScoredPositive ==
    /\ ScoreReturned(RATIO_CALC_SCOUT_MARGIN)
    /\ lastOp.pair_ratio # RInt(1)
    /\ lastOp.coin_price # lastOp.optional_coin_price
    /\ RLess(Zero, lastOp.result)

(* calculate_weighted_average has returned or raised *)
AverageReturned ==
    /\ lastOp.op = "calculate_weighted_average"
    /\ lastOp.result # Pending

(* C20: calculate_weighted_average(wa, wb, va, vb) is (wa * va + wb * vb) *)
(* / (wa + wb) whenever wa + wb # 0, so (1, 1, 10, 20) gives 15, and the  *)
(* call fails without a value when wa + wb = 0                            *)
WeightedAverageValue ==
    AverageReturned =>
        LET wa == lastOp.weight_a
            wb == lastOp.weight_b
            va == lastOp.value_a
            vb == lastOp.value_b
        IN  /\ ~RIsZero(RAdd(wa, wb)) =>
                  lastOp.result =
                      RDiv(RAdd(RMul(wa, va), RMul(wb, vb)), RAdd(wa, wb))
            /\ RIsZero(RAdd(wa, wb)) => lastOp.result = Raised("ZeroDivisionError")
            /\ (wa = RInt(1) /\ wb = RInt(1) /\ va = RInt(10) /\ vb = RInt(20))
                  => lastOp.result = RInt(15)

(* unequal weights of opposite sign were averaged over two different *)
(* values                                                            *)
WeightedAverageUneven ==
    /\ AverageReturned
    /\ lastOp.weight_a = RInt(-1)
    /\ lastOp.weight_b = RInt(2)
    /\ lastOp.value_a = RInt(10)
    /\ lastOp.value_b = RInt(20)
    /\ lastOp.result = RInt(30)

(* a jump whose sell order was rejected *)
SellRejectedStep == lastOp'.op = "jump" /\ lastOp'.kind = "sell_failed"
(* a jump that ended before a buy order was filled *)
NotBoughtStep ==
    lastOp'.op = "jump" /\ lastOp'.kind \in {"sell_failed", "before_buy", "buy_failed"}

(* C21: a jump sells before it buys: when the sell order is rejected the *)
(* jump returns None and leaves paths, rows, ratios and the failed-buy   *)
(* fields as they were, and the destination coin becomes a current coin  *)
(* only in a jump whose buy order was filled                             *)
SellBeforeBuy ==
    [][/\ SellRejectedStep =>
            /\ UNCHANGED <<paths, current, coin_pnl, usd_pnl, ratio,
                           failed_buy_order, failed_buy_path>>
            /\ lastOp'.path = NoPath
       /\ NotBoughtStep => CurrentKept /\ ratio' = ratio]_vars

(* a sell was rejected on a ledger with rows, while the failed-buy fields *)
(* were set by an earlier jump                                            *)
SellRejectedAfterFailedBuy ==
    /\ lastOp.op = "jump"
    /\ lastOp.kind = "sell_failed"
    /\ failed_buy_order
    /\ failed_buy_path # NoPath
    /\ coin_pnl # <<>>

(* a jump whose buy order was filled *)
BoughtCall == lastOp.op = "jump" /\ lastOp.kind \in {"jump", "merge"}
(* the path of the coin being left, as the jump has it before the buy *)
PathLeft ==
    LET path == get_coin_path(lastOp.entry, lastOp.coin)
    IN  IF path = NoPath THEN Len(lastOp.entry.paths) ELSE path
(* the destination coin is the held coin of another active path *)
HeldElsewhere ==
    \E p \in 1..Len(lastOp.entry.paths) :
        /\ lastOp.entry.paths[p]
        /\ lastOp.entry.current[p] = lastOp.to
        /\ p # PathLeft

(* C22: a jump whose buy was filled merges exactly when the destination  *)
(* coin is the held coin of an active path other than the path of the    *)
(* coin being left; a jump that does not merge allocates no path and     *)
(* deactivates none                                                      *)
MergeExactlyWhenHeldElsewhere ==
    BoughtCall =>
        /\ lastOp.kind = "merge" <=> HeldElsewhere
        /\ lastOp.kind = "jump" => paths = lastOp.entry.paths

(* a jump beside another active path, onto a coin that path once held, *)
(* did not merge                                                       *)
JumpedBesideActivePath ==
    /\ BoughtCall
    /\ lastOp.kind = "jump"
    /\ lastOp.exc = ""
    /\ \E p \in 1..Len(paths) :
          /\ paths[p]
          /\ p # lastOp.path
          /\ current[p] \notin {NoCoin, lastOp.to}
          /\ get_last_coin_pnl(Machine, lastOp.to, p) # None

(* a jump without a merge has run to its end, from a coin an active path *)
(* held                                                                 *)
LineageJump ==
    /\ BoughtCall
    /\ lastOp.kind = "jump"
    /\ lastOp.exc = ""
    /\ get_coin_path(lastOp.entry, lastOp.coin) # NoPath
LineagePath == get_coin_path(lastOp.entry, lastOp.coin)

(* C23: a jump without a merge, from a coin an active path holds, appends *)
(* the destination coin's CoinPnl under that path and makes it the path   *)
(* of the destination coin; the path stays active and no path is created  *)
LineageKept ==
    LineageJump =>
        /\ PositionRecorded
        /\ PositionRow.coin = lastOp.to
        /\ PositionRow.path = LineagePath
        /\ current[LineagePath] = lastOp.to
        /\ get_coin_path(Machine, lastOp.to) = LineagePath
        /\ lastOp.path = LineagePath
        /\ paths = lastOp.entry.paths
        /\ paths[LineagePath]

(* the path jumped on had rows of two coins from earlier jumps, beside *)
(* another path                                                        *)
LineageContinued ==
    /\ LineageJump
    /\ Len(paths) > 1
    /\ \E i, j \in 1..lastOp.entry.coin_rows :
          /\ coin_pnl[i].path = LineagePath
          /\ coin_pnl[j].path = LineagePath
          /\ coin_pnl[i].coin # coin_pnl[j].coin
          /\ coin_pnl[i].coin # lastOp.to
          /\ coin_pnl[j].coin # lastOp.to

(* a buy was filled and its coin became a held coin: by a jump, a merge *)
(* or a purchase of bridge_scout                                        *)
BoughtByJump ==
    lastOp'.op = "jump" /\ lastOp'.kind \in {"jump", "merge"} /\ lastOp'.exc = ""
BoughtByBridgeScout ==
    lastOp'.op = "bridge_scout" /\ lastOp'.to \in Coins
(* update_trade_threshold was applied to the pairs into the coin, with the *)
(* fill price, for one of the answers the exchange gives about balances    *)
ThresholdApplied ==
    \E over \in OverSets(lastOp'.to, ScoutEnv) :
        ratio' = update_trade_threshold(Machine, lastOp'.to,
                                        PriceVal(price[lastOp'.to]), over).ratio

(* C24: whenever a buy is filled and a coin becomes the held coin, by a  *)
(* jump, a merge or a bridge-scout purchase, update_trade_threshold is   *)
(* applied to the pairs into that coin with the fill price               *)
HeldCoinUpdatesRatio ==
    [][(BoughtByJump \/ BoughtByBridgeScout) => ThresholdApplied]_vars

(* the passes of the reconciliation on record that could not obtain the *)
(* path they needed                                                     *)
PathlessPasses ==
    {i \in 1..Len(lastOp.log) : lastOp.log[i].tag \in {"alloc_failed", "no_path"}}
(* the database as pass i found it *)
FoundByPass(i) == IF i = 1 THEN lastOp.entry ELSE lastOp.log[i - 1].db

(* C25: a transaction of a reconciliation whose path cannot be obtained  *)
(* (no new path in case 1, no path of the coin in case 2 or 3) changes   *)
(* no path, no current coin and no row, raises nothing, and the next     *)
(* transaction of the batch is processed                                 *)
PathlessTransactionSkipped ==
    lastOp.op = "reconcile" =>
        \A i \in PathlessPasses :
            /\ lastOp.log[i].db = FoundByPass(i)
            /\ lastOp.log[i].exc = ""
            /\ i < Len(lastOp.transactions) => Len(lastOp.log) > i

(* the first deposit of a batch found no path, and the second one went on *)
(* to open a path                                                         *)
SkippedThenOpened ==
    /\ lastOp.op = "reconcile"
    /\ Len(lastOp.log) = 2
    /\ 1 \in PathlessPasses
    /\ lastOp.log[2].tag = "new"
    /\ Len(lastOp.log[2].db.paths) = Len(lastOp.entry.paths) + 1
    /\ Snapshot(Machine) = lastOp.log[2].db

(* the merge on record, of a jump whose filled quantity is on record *)
MergeFilled == MergeAttempted /\ "filled" \in DOMAIN lastOp
FilledQuantity == QtyVal(lastOp.filled)
FillPrice == PriceVal(price[lastOp.to])
DestinationMerged(r) ==
    LET a == SourceRow(lastOp.to)
        b == DestinationRow(lastOp.to)
        merged_quantity == RAdd(FilledQuantity, Amt(b))
        coin_gain == RSub(merged_quantity, RAdd(Amt(a), Amt(b)))
    IN  /\ r.coin_amount = Round(merged_quantity, get_base_asset_precision)
        /\ a = None => SameGains(r, b)
        /\ a # None =>
              /\ r.coin_gain = Round(coin_gain, get_base_asset_precision)
              /\ r.total_coin_gain =
                    Round(RAdd(RAdd(TGain(a), TGain(b)), coin_gain),
                          get_base_asset_precision)

(* C26: the row a merge writes for the destination coin of the jump has   *)
(* the filled quantity plus the destination path's amount as coin_amount;  *)
(* with no history of the coin on the source path it carries the four     *)
(* gains of the destination path's row, and with history its coin_gain is *)
(* the merged quantity less the two amounts and its total_coin_gain the   *)
(* two totals plus that gain                                              *)
DestinationCoinMerged ==
    MergeFilled =>
        \A i \in MergedRows(lastOp.to) : DestinationMerged(coin_pnl[i])

(* a merge wrote the destination coin's row onto a coin the source path *)
(* had a row of, with a gain of its own and earlier totals              *)
MergedOntoKnownCoin ==
    /\ MergeFilled
    /\ MergedRows(lastOp.to) # {}
    /\ SourceRow(lastOp.to) # None
    /\ DestinationRow(lastOp.to).total_coin_gain # 0
    /\ \E i \in MergedRows(lastOp.to) :
          coin_pnl[i].coin_gain # 0 /\ coin_pnl[i].total_coin_gain # coin_pnl[i].coin_gain

SinglePathMerged(c, r) ==
    LET known == IF SourceRow(c) # None THEN SourceRow(c) ELSE DestinationRow(c)
        bought == RDiv(RMul(FilledQuantity, FillPrice), Prc(known))
        other == IF SourceRow(c) # None
                 THEN RDiv(Brv(DestinationRow(lastOp.to)), Prc(known))
                 ELSE Amt(known)
        merged_amount == RAdd(bought, other)
        multiplier == RSub(RInt(1), RDiv(Amt(known), merged_amount))
    IN  /\ r.coin_amount = Round(merged_amount, get_base_asset_precision)
        /\ r.coin_gain = known.coin_gain
        /\ r.total_coin_gain = known.total_coin_gain
        /\ r.percent_gain = Round(RMul(Pct(known), multiplier), PercentDigits)
        /\ r.total_percent_gain = Round(RMul(TPct(known), multiplier), PercentDigits)

(* C27: for a coin other than the destination with history on exactly one *)
(* of the merging paths the merged row's coin_amount is the sum of the    *)
(* two approximated amounts, its coin_gain and total_coin_gain are those  *)
(* of the known side's latest row, and its percent_gain and               *)
(* total_percent_gain are the known side's scaled by 1 less the known     *)
(* amount over the new amount                                             *)
SingleSidedMerged ==
    MergeFilled =>
        \A c \in Coins \ {lastOp.to} :
            (SourceRow(c) = None) # (DestinationRow(c) = None) =>
                \A i \in MergedRows(c) : SinglePathMerged(c, coin_pnl[i])

(* a merge wrote the row of a coin only one of the paths had visited, and *)
(* scaled a percentage that was not zero                                  *)
MergedSingleHistory ==
    /\ MergeFilled
    /\ \E c \in Coins \ {lastOp.to} :
          /\ (SourceRow(c) = None) # (DestinationRow(c) = None)
          /\ \E i \in MergedRows(c) :
                LET known == IF SourceRow(c) # None THEN SourceRow(c)
                             ELSE DestinationRow(c)
                IN  /\ known.total_percent_gain # 0
                    /\ coin_pnl[i].total_percent_gain # known.total_percent_gain

(* the active paths that hold no coin *)
EmptyActivePaths == {p \in 1..Len(paths) : paths[p] /\ current[p] = NoCoin}

(* C28: every active path is the path of a currently held coin: no jump, *)
(* rejected order, merge, merge abort or reconciliation leaves a path    *)
(* that is active and holds no coin                                      *)
ActivePathsHold == EmptyActivePaths = {}

(* the ledger ids under which a coin is currently held, the null path of *)
(* a coin recorded without a path among them                             *)
Holdings == {p \in DOMAIN current : current[p] # NoCoin}
HasRow(c, p) == \E i \in 1..Len(coin_pnl) : coin_pnl[i].coin = c /\ coin_pnl[i].path = p

(* C29: every currently held coin has a path and at least one CoinPnl row *)
(* of the coin on that path, whatever jumps, merges, bridge-scout         *)
(* purchases and reconciliations came before                              *)
HeldCoinsHaveRows == \A p \in Holdings : p # NoPath /\ HasRow(current[p], p)

(* C30: failed_buy_path is set exactly when failed_buy_order is true, *)
(* after any sequence of jumps and bridge scouts                      *)
FailureFlagsConsistent == (failed_buy_path # NoPath) <=> failed_buy_order

(* the latest UsdPnl rows of the two merging paths before the merge on  *)
(* record and the rows the merge wrote for the new path                 *)
UsdBeforeMerge == [usd_pnl |-> SubSeq(usd_pnl, 1, MergeEntry.usd_rows)]
SourceUsd == get_last_usd_pnl(UsdBeforeMerge, MergeSource)
DestinationUsd == get_last_usd_pnl(UsdBeforeMerge, MergeDestination)
MergedUsdRows ==
    {i \in (MergeEntry.usd_rows + 1)..MergeLeft.usd_rows :
        usd_pnl[i].path = Len(MergeEntry.paths) + 1}
BothUsd ==
    /\ MergeSource # NoPath
    /\ MergeDestination # NoPath
    /\ SourceUsd # None
    /\ DestinationUsd # None

(* C33: when both merging paths have a UsdPnl row the merged row's       *)
(* total_gain is the sum of the two paths' total gains plus the gain of  *)
(* the merge, the new value less the sum of the two old values           *)
MergeConservesUsdGain ==
    MergeAttempted /\ BothUsd =>
        \A i \in MergedUsdRows :
            usd_pnl[i].total_gain =
                SourceUsd.total_gain + DestinationUsd.total_gain
                + (usd_pnl[i].value - (SourceUsd.value + DestinationUsd.value))

(* the paths that have been deactivated *)
RetiredPaths == {p \in 1..Len(paths) : ~paths[p]}
AppendedTo(p) ==
    \/ \E i \in (Len(coin_pnl) + 1)..Len(coin_pnl') : coin_pnl'[i].path = p
    \/ \E i \in (Len(usd_pnl) + 1)..Len(usd_pnl') : usd_pnl'[i].path = p

(* C31: a path that has been deactivated, by a merge or a full withdrawal, *)
(* is never active again and never deleted, and no later step appends a    *)
(* CoinPnl or UsdPnl row to it                                             *)
RetirementPermanent ==
    [][\A p \in RetiredPaths :
          /\ p <= Len(paths')
          /\ ~paths'[p]
          /\ ~AppendedTo(p)]_vars

(* a jump found the two paths a merge had retired and a third that a *)
(* full withdrawal had retired after it, and wrote rows of both tables *)
(* under a fourth                                                     *)
WroteBesideRetiredPaths ==
    /\ lastOp.op = "jump"
    /\ paths = <<FALSE, FALSE, FALSE, TRUE>>
    /\ current[4] # NoCoin
    /\ Len(coin_pnl) > lastOp.entry.coin_rows
    /\ Len(usd_pnl) > lastOp.entry.usd_rows

(* the rows of a coin on the first path, and the sum of their gains *)
PositionRows(c) == {i \in 1..Len(coin_pnl) : coin_pnl[i].coin = c /\ coin_pnl[i].path = 1}
RECURSIVE GainSum(_, _)
GainSum(c, i) ==
    IF i = 0 THEN 0
    ELSE GainSum(c, i - 1) + (IF i \in PositionRows(c) THEN coin_pnl[i].coin_gain ELSE 0)
FirstPosition(c) == coin_pnl[CHOOSE i \in PositionRows(c) : \A j \in PositionRows(c) : i <= j]
LatestPosition(c) == coin_pnl[CHOOSE i \in PositionRows(c) : \A j \in PositionRows(c) : j <= i]

(* C32: after update_coin_pnl calls only, the latest row of a path and   *)
(* coin has as total_coin_gain the sum of the coin_gain of all its rows, *)
(* which is the latest coin_amount less the first row's coin_amount      *)
TotalsTelescope ==
    \A c \in Coins :
        PositionRows(c) # {} =>
            /\ LatestPosition(c).total_coin_gain = GainSum(c, Len(coin_pnl))
            /\ LatestPosition(c).total_coin_gain =
                  LatestPosition(c).coin_amount - FirstPosition(c).coin_amount

(* three positions of one coin: the total is not zero and not the gain of *)
(* the latest row                                                         *)
ThreePositionsTotalled ==
    \E c \in Coins :
        /\ Cardinality(PositionRows(c)) >= 3
        /\ LatestPosition(c).total_coin_gain # 0
        /\ LatestPosition(c).total_coin_gain # LatestPosition(c).coin_gain

====
